---------------------------- MODULE Spec2Model ----------------------------
(***************************************************************************)
(* Model of the physics / hole-sink core of the mini-golf scene            *)
(* (src/src/scene/Canvas3D.jsx).                                           *)
(*                                                                         *)
(* Numbers: lengths and speeds are fixed-point integers in 1/1000 of a     *)
(* world unit (0.6 is 600), times are milliseconds, unit vectors and       *)
(* fractions in [0,1] are scaled by 1000.  Divisions truncate toward 0.    *)
(* With this scale the stationary test lengthSq() > 1e-6 is |v|^2 > 1.     *)
(***************************************************************************)
EXTENDS Integers, Sequences, FiniteSets, TLC

VARIABLES
    phase,            \* "game": Canvas3D mounted; "leaving": navigate("/menu") requested; "menu": unmounted
    level,            \* route parameter levelId clamped to 1..5
    ballPos,          \* ballRef.current.position
    ballScale,        \* ballRef.current.scale (uniform)
    velocityRef,      \* velocityRef.current
    sinkingRef,       \* sinkingRef.current: [active, t, start, end]
    holeTriggeredRef, \* holeTriggeredRef.current (the latch)
    holeDone,         \* prop holeDone as held by the parent
    holeDoneSeen,     \* value of holeDone captured by the closure of the current scene effect
    strokes,          \* parent's stroke counter (setStrokes)
    isAiming,         \* closure variable isAiming
    dragStart,        \* closure variable dragStart
    obstacleTime,     \* closure variable obstacleTime (ms)
    meshes,           \* per obstacle: mesh.position and mesh.rotation.y
    confettiPool,     \* confettiPoolRef.current: per slot [visible, pos, vel, life]
    trajDots,         \* positions of the visible trajectory dots, in order (dots i < sim.length)
    calls,            \* number of onHoleComplete invocations since the last reset / mount
    resets,           \* number of modal requests (retry, next, menu) honoured so far
    last,             \* the operation that produced this state
    ev,               \* what the last frame did: subset of FrameEvents
    pre               \* inputs of the last operation (pre-step ball state, dt, friction, release point)
                      \* and, for a frame, the ball on entry to the collision phase and the obstacles hit

vars == <<phase, level, ballPos, ballScale, velocityRef, sinkingRef, holeTriggeredRef,
          holeDone, holeDoneSeen, strokes, isAiming, dragStart, obstacleTime, meshes,
          confettiPool, trajDots, calls, resets, last, ev, pre>>

---------------------------------------------------------------------------
(* Program constants *)

BALL_RADIUS == 600
HOLE_RADIUS == BALL_RADIUS * 2
COURSE_SIZE == 22000
COURSE_LIMIT == COURSE_SIZE \div 2 - 600
EPS_SQ == 1                 \* 1e-6 in squared milli-units
DEFAULT_FRICTION == 1500
WALL_BOUNCE == 800          \* the factor 0.8 of vel.x *= -0.8
SINK_TOTAL == 1200          \* const total = 1.2
SINK_END_Y == 0 - 500       \* setY(-0.5)
SINK_SHRINK == 700          \* 1 - 0.7 * eased
FINAL_SCALE == 300          \* setScalar(0.3)
AIM_PICK_DIST == 1200       \* p.distanceTo(ball.position) < 1.2
MAX_DRAG == 6000            \* Math.min(dir.length(), 6)
POWER == 5                  \* dir.setLength(power * 5)
LAST_LEVEL == 5
POOL_SIZE == 160            \* createConfettiPool(160)
BURST == 60                 \* spawnConfetti(holeRef.current.position, 60)
GRAVITY == 9800             \* c.vel.y -= 9.8 * dt
CONFETTI_FLOOR == 0 - 1000  \* c.mesh.position.y < -1
TRAJ_DOTS == 40             \* for (let i = 0; i < 40; i++) trajDots.push(d)
TRAJ_DT == 60               \* const dt = 0.06 of simulateTrajectory

(* Bounds of the model *)

MaxTime == 2400             \* frames are explored while obstacleTime stays within this many ms
MaxStrokes == 2             \* aim gestures explored per stroke-counter epoch
MaxSpeed == 30000           \* a release is explored only if no velocity component exceeds this
MaxResets == 1              \* modal requests explored in one run

---------------------------------------------------------------------------
(* Fixed-point helpers *)

Abs(a) == IF a >= 0 THEN a ELSE 0 - a
Max(a, b) == IF a >= b THEN a ELSE b
Min(a, b) == IF a <= b THEN a ELSE b

\* a / b truncated toward zero, as a stand-in for floating-point division
Quot(a, b) == IF a >= 0 THEN a \div b ELSE 0 - ((0 - a) \div b)

\* F applied to the value of v, with v evaluated once
Bind(v, F(_)) == CHOOSE y \in {F(b) : b \in {v}} : TRUE

RECURSIVE SqrtSearch(_, _, _)
SqrtSearch(n, lo, hi) ==
    IF lo >= hi THEN lo
    ELSE Bind((lo + hi + 1) \div 2, LAMBDA mid :
           IF mid * mid <= n THEN SqrtSearch(n, mid, hi)
           ELSE Bind(mid - 1, LAMBDA top : SqrtSearch(n, lo, top)))

\* floor of Math.sqrt(n)
ISqrt(n) == Bind(n, LAMBDA m : SqrtSearch(m, 0, 46340))

Vec(a, b, c) == [x |-> a, y |-> b, z |-> c]
ZeroV == Vec(0, 0, 0)

VAdd(a, b) == Vec(a.x + b.x, a.y + b.y, a.z + b.z)
VSub(a, b) == Vec(a.x - b.x, a.y - b.y, a.z - b.z)

\* Vector3.multiplyScalar with the scalar given as num/den
VScale(a, num, den) == Vec(Quot(a.x * num, den), Quot(a.y * num, den), Quot(a.z * num, den))

\* Vector3.lengthSq
LengthSq(a) == a.x * a.x + a.y * a.y + a.z * a.z

\* Vector3.length
Length(a) == ISqrt(LengthSq(a))

\* Vector3.setLength(l) = normalize().multiplyScalar(l); normalize divides by (length() || 1)
SetLength(a, l) ==
    Bind(Length(a), LAMBDA len : VScale(a, l, IF len = 0 THEN 1 ELSE len))

\* a.distanceTo(b) < r, decided on the squares
DistLess(a, b, r) == LengthSq(VSub(a, b)) < r * r

\* Vector3.addScaledVector(v, dt) with dt in ms
AddScaled(p, v, dt) == VAdd(p, VScale(v, dt, 1000))

---------------------------------------------------------------------------
(* Level data *)

SPAWN == Vec(0, BALL_RADIUS, 0)

\* holePosition per level
HolePosition(l) ==
    CASE l = 2 -> Vec(0, 50, 0 - 14000)
      [] l = 3 -> Vec(6000, 50, 0 - 6000)
      [] l = 4 -> Vec(0 - 5000, 50, 0 - 4000)
      [] l = 5 -> Vec(10000, 50, 0)
      [] OTHER -> Vec(5000, 50, 0 - 3000)

\* one obstacle descriptor; size is the BoxGeometry (width, height, depth), data the ramp's
\* { width, depth, height }, speed/amplitude the motion parameters, radius the pond radius
Ob(type, pos, size, data, axis, amplitude, speed, radius) ==
    [type |-> type, pos |-> pos, size |-> size, data |-> data, axis |-> axis,
     amplitude |-> amplitude, speed |-> speed, radius |-> radius]

Plank(i) ==
    Ob("rotating", Vec(0 - 6000 + i * 3600, 150, 0 - 3000 - i * 1200), Vec(5200, 350, 900),
       ZeroV, "", 0, 600 + i * 250, 0)

\* the obstacles array built for a level, in push order
LevelObstacles(l) ==
    CASE l = 2 ->
           << Ob("ramp", Vec(0, 250, 0 - 10000), Vec(6000, 500, 8000), Vec(6000, 8000, 1400), "", 0, 0, 0),
              Ob("box", Vec(3200, 600, 0 - 6000), Vec(600, 1200, 3500), ZeroV, "", 0, 0, 0),
              Ob("box", Vec(0 - 2200, 600, 0 - 4200), Vec(600, 1200, 3500), ZeroV, "", 0, 0, 0),
              Ob("moving", Vec(0, 600, 0 - 12000), Vec(1200, 1000, 1200), ZeroV, "x", 3000, 1200, 0) >>
      [] l = 3 ->
           << Plank(0), Plank(1), Plank(2), Plank(3),
              Ob("ramp", Vec(5000, 250, 0 - 6000), Vec(5000, 500, 6000), Vec(5000, 6000, 1200), "", 0, 0, 0) >>
      [] l = 4 ->
           << Ob("water", Vec(0 - 4000, 20, 0 - 4000), ZeroV, ZeroV, "", 0, 0, 3600),
              Ob("box", Vec(0 - 4000, 200, 0 - 2800), Vec(1600, 400, 1600), ZeroV, "", 0, 0, 0) >>
      [] l = 5 ->
           << Ob("ramp", Vec(0 - 6000, 300, 2000), Vec(6000, 600, 3000), Vec(6000, 3000, 1200), "", 0, 0, 0),
              Ob("ramp", Vec(2000, 300, 0 - 500), Vec(6000, 600, 3000), Vec(6000, 3000, 1200), "", 0, 0, 0) >>
      [] OTHER -> << >>

\* the mutable part of each obstacle mesh right after the scene is built:
\* mesh.position and mesh.rotation.y (milli-radians)
InitialMeshes(l) ==
    [i \in 1..Len(LevelObstacles(l)) |-> [pos |-> LevelObstacles(l)[i].pos, yaw |-> 0]]

---------------------------------------------------------------------------
(* Trigonometry in fixed point: angles in milli-radians, values scaled by 1000 *)

PI_MRAD == 3142
HALF_PI_MRAD == 1571
TWO_PI_MRAD == 6283

\* Taylor polynomial of sin on [0, pi/2]
SinQ(a) ==
    LET a2 == (a * a) \div 1000
        t3 == (a * a2) \div 6000
        t5 == (t3 * a2) \div 20000
        t7 == (t5 * a2) \div 42000
    IN a - t3 + t5 - t7

\* Math.sin
Sin(theta) ==
    LET a == theta % TWO_PI_MRAD
    IN CASE a <= HALF_PI_MRAD -> SinQ(a)
         [] a > HALF_PI_MRAD /\ a <= PI_MRAD -> SinQ(PI_MRAD - a)
         [] a > PI_MRAD /\ a <= PI_MRAD + HALF_PI_MRAD -> 0 - SinQ(a - PI_MRAD)
         [] OTHER -> 0 - SinQ(TWO_PI_MRAD - a)

\* Math.cos
Cos(theta) == Sin(theta + HALF_PI_MRAD)

---------------------------------------------------------------------------
(* Motion integrator: animate, "physics integration (unless sinking)" *)

\* friction used by a frame: 1.5, or 4.0 on level 4 when the ball is within o.radius
\* of the pond's centre (Vector3.distanceTo, all three components)
LocalFriction(l, pos) ==
    IF l = 4 /\ \E i \in 1..Len(LevelObstacles(l)) :
                  /\ LevelObstacles(l)[i].type = "water"
                  /\ DistLess(pos, LevelObstacles(l)[i].pos, LevelObstacles(l)[i].radius)
    THEN 4000
    ELSE DEFAULT_FRICTION

\* wall tests that miss the high side
WallAxisLowOnly(c, v) ==
    IF c < 0 - COURSE_LIMIT
    THEN [c |-> 0 - COURSE_LIMIT, v |-> Quot(v * (0 - WALL_BOUNCE), 1000)]
    ELSE [c |-> c, v |-> v]

\* wall tests that negate the component without the 0.8 loss
WallAxisElastic(c, v) ==
    IF c < 0 - COURSE_LIMIT
    THEN [c |-> 0 - COURSE_LIMIT, v |-> 0 - v]
    ELSE IF c > COURSE_LIMIT
         THEN [c |-> COURSE_LIMIT, v |-> 0 - v]
         ELSE [c |-> c, v |-> v]

\* one wall test of the integration step on axis value c with velocity component v:
\* the two tests of an axis run in sequence, low side first
WallAxis(c, v) ==
    LET lo == IF c < 0 - COURSE_LIMIT
              THEN [c |-> 0 - COURSE_LIMIT, v |-> Quot(v * (0 - WALL_BOUNCE), 1000)]
              ELSE [c |-> c, v |-> v]
    IN IF lo.c > COURSE_LIMIT
       THEN [c |-> COURSE_LIMIT, v |-> Quot(lo.v * (0 - WALL_BOUNCE), 1000)]
       ELSE lo

\* an integration step without Math.max(0, ...) on the new speed
IntegrateNoFloor(pos, vel, f, dt) ==
    IF LengthSq(vel) > EPS_SQ
    THEN Bind(LET speed == Length(vel)
                  decel == Quot(f * dt, 1000)
              IN SetLength(vel, speed - decel), LAMBDA v1 :
         Bind(AddScaled(pos, v1, dt), LAMBDA p1 :
         Bind(WallAxis(p1.x, v1.x), LAMBDA ax :
         Bind(WallAxis(p1.z, v1.z), LAMBDA az :
           [pos |-> Vec(ax.c, p1.y, az.c), vel |-> Vec(ax.v, v1.y, az.v), moved |-> TRUE]))))
    ELSE [pos |-> pos, vel |-> vel, moved |-> FALSE]

\* an integration step that translates by the velocity it had before friction
IntegrateOldVelocity(pos, vel, f, dt) ==
    IF LengthSq(vel) > EPS_SQ
    THEN Bind(LET speed == Length(vel)
                  decel == Quot(f * dt, 1000)
                  newSpeed == Max(0, speed - decel)
              IN SetLength(vel, newSpeed), LAMBDA v1 :
         Bind(AddScaled(pos, vel, dt), LAMBDA p1 :
         Bind(WallAxis(p1.x, v1.x), LAMBDA ax :
         Bind(WallAxis(p1.z, v1.z), LAMBDA az :
           [pos |-> Vec(ax.c, p1.y, az.c), vel |-> Vec(ax.v, v1.y, az.v), moved |-> TRUE]))))
    ELSE [pos |-> pos, vel |-> vel, moved |-> FALSE]

\* "integrate velocity -> position" and "wall collisions (bounding)":
\* skipped when lengthSq() <= 1e-6, else friction, translation by the new velocity, clamps
Integrate(pos, vel, f, dt) ==
    IF LengthSq(vel) > EPS_SQ
    THEN Bind(LET speed == Length(vel)
                  decel == Quot(f * dt, 1000)
                  newSpeed == Max(0, speed - decel)
              IN SetLength(vel, newSpeed), LAMBDA v1 :
         Bind(AddScaled(pos, v1, dt), LAMBDA p1 :
         Bind(WallAxis(p1.x, v1.x), LAMBDA ax :
         Bind(WallAxis(p1.z, v1.z), LAMBDA az :
           [pos |-> Vec(ax.c, p1.y, az.c), vel |-> Vec(ax.v, v1.y, az.v), moved |-> TRUE]))))
    ELSE [pos |-> pos, vel |-> vel, moved |-> FALSE]

---------------------------------------------------------------------------
(* Obstacle animator: animate, "update rotating obstacles" *)

\* the mesh of obstacle o after the animator ran with obstacleTime already advanced to time
AnimateMesh(o, m, time, dt) ==
    CASE o.type = "rotating" -> [m EXCEPT !.yaw = m.yaw + Quot(o.speed * dt, 1000)]
      [] o.type = "moving" ->
           IF o.axis = "x"
           THEN [m EXCEPT !.pos.x = o.pos.x + Quot(Sin(Quot(time * o.speed, 1000)) * o.amplitude, 1000)]
           ELSE [m EXCEPT !.pos.z = o.pos.z + Quot(Cos(Quot(time * o.speed, 1000)) * o.amplitude, 1000)]
      [] OTHER -> m

AnimateObstacles(l, ms, time, dt) ==
    [i \in DOMAIN ms |-> AnimateMesh(LevelObstacles(l)[i], ms[i], time, dt)]

---------------------------------------------------------------------------
(* Collision resolver: handleObstacleCollisions *)

Dot(a, b) == a.x * b.x + a.y * b.y + a.z * b.z

\* Vector3.normalize: divides by (length() || 1); the result is scaled by 1000
Normalize(a) ==
    LET len == Length(a)
        d == IF len = 0 THEN 1 ELSE len
    IN VScale(a, 1000, d)

\* Vector3.reflect(n) for a normal n scaled by 1000: v - 2 (v . n) n
Reflect(v, n) ==
    LET d == Quot(Dot(v, n), 1000)
    IN VSub(v, VScale(n, 2 * d, 1000))

Clamp(c, lo, hi) == Max(lo, Min(hi, c))

\* new THREE.Box3().setFromObject(mesh): the axis-aligned box around the mesh's geometry
\* (size) placed at mesh.position and turned by mesh.rotation.y
Box3(size, m) ==
    LET c == Abs(Cos(m.yaw))
        sn == Abs(Sin(m.yaw))
        hx == Quot(c * size.x + sn * size.z, 2000)
        hy == size.y \div 2
        hz == Quot(sn * size.x + c * size.z, 2000)
    IN [min |-> Vec(m.pos.x - hx, m.pos.y - hy, m.pos.z - hz),
        max |-> Vec(m.pos.x + hx, m.pos.y + hy, m.pos.z + hz)]

\* Box3.clampPoint
ClampPoint(b, p) ==
    Vec(Clamp(p.x, b.min.x, b.max.x), Clamp(p.y, b.min.y, b.max.y), Clamp(p.z, b.min.z, b.max.z))

\* closest.distanceTo(spherePos) <= radius, decided on the squares
SphereIntersectsBox(spherePos, radius, size, m) ==
    LengthSq(VSub(ClampPoint(Box3(size, m), spherePos), spherePos)) <= radius * radius

\* horizontal direction from the mesh to the ball, .setY(0).normalize()
FlatDir(pos, m) == Normalize(Vec(pos.x - m.pos.x, 0, pos.z - m.pos.z))

\* a box contact that nudges the ball toward the obstacle centre
CollideBoxPullingIn(st, o, i) ==
    LET m == st.meshes[i]
    IN IF SphereIntersectsBox(st.pos, BALL_RADIUS, o.size, m)
       THEN LET d0 == FlatDir(st.pos, m)
                dir == IF LengthSq(d0) < EPS_SQ THEN Vec(1000, 0, 0) ELSE d0
            IN [st EXCEPT !.vel = VScale(Reflect(st.vel, dir), 7, 10),
                          !.pos = VSub(st.pos, VScale(dir, 40, 1000)),
                          !.hit = @ \cup {i}]
       ELSE st

\* type "box": reflect about the outward direction (+X when degenerate), scale by 0.7,
\* nudge the ball 0.04 along it
CollideBox(st, o, i) ==
    LET m == st.meshes[i]
    IN IF SphereIntersectsBox(st.pos, BALL_RADIUS, o.size, m)
       THEN LET d0 == FlatDir(st.pos, m)
                dir == IF LengthSq(d0) < EPS_SQ THEN Vec(1000, 0, 0) ELSE d0
            IN [st EXCEPT !.vel = VScale(Reflect(st.vel, dir), 7, 10),
                          !.pos = VAdd(st.pos, VScale(dir, 40, 1000)),
                          !.hit = @ \cup {i}]
       ELSE st

\* type "moving": within BALL_RADIUS + 0.6 of the mesh centre, add 5 * dir to the velocity
\* and add dir.multiplyScalar(-0.04) to the mesh position, dir being already scaled by 5
CollideMoving(st, o, i) ==
    LET m == st.meshes[i]
    IN IF DistLess(m.pos, st.pos, BALL_RADIUS + 600)
       THEN LET dir == Normalize(VSub(st.pos, m.pos))
                dir5 == VScale(dir, 5 * 1000, 1000)
            IN [st EXCEPT !.vel = VAdd(st.vel, dir5),
                          !.meshes[i].pos = VAdd(m.pos, VScale(dir5, 0 - 40, 1000)),
                          !.hit = @ \cup {i}]
       ELSE st

\* type "rotating": closest point of the bounding box within BALL_RADIUS + 0.02:
\* reflect about the horizontal direction (no fallback), scale by 0.75, nudge 0.03
CollideRotating(st, o, i) ==
    LET m == st.meshes[i]
    IN IF SphereIntersectsBox(st.pos, BALL_RADIUS + 20, o.size, m)
       THEN LET dir == FlatDir(st.pos, m)
            IN [st EXCEPT !.vel = VScale(Reflect(st.vel, dir), 75, 100),
                          !.pos = VAdd(st.pos, VScale(dir, 30, 1000)),
                          !.hit = @ \cup {i}]
       ELSE st

\* a ramp branch that does not clamp the proportion along the depth
CollideRampUnclamped(st, o, i) ==
    LET w == IF o.data.x # 0 THEN o.data.x ELSE 4000
        depth == IF o.data.y # 0 THEN o.data.y ELSE 6000
        h == IF o.data.z # 0 THEN o.data.z ELSE 1200
        center == st.meshes[i].pos
        dx == Abs(st.pos.x - center.x)
        dz == Abs(st.pos.z - center.z)
    IN IF dx < w \div 2 + 600 /\ dz < depth \div 2 + 600
       THEN LET localZ == Quot((st.pos.z - (center.z - depth \div 2)) * 1000, depth)
                height == Quot(h * localZ, 1000)
            IN [st EXCEPT !.pos.y = BALL_RADIUS + height,
                          !.vel.y = Quot(st.vel.y * 2, 10),
                          !.hit = @ \cup {i}]
       ELSE st

\* type "ramp": inside the footprint, place the ball on the ramp surface and damp vel.y
CollideRamp(st, o, i) ==
    LET w == IF o.data.x # 0 THEN o.data.x ELSE 4000
        depth == IF o.data.y # 0 THEN o.data.y ELSE 6000
        h == IF o.data.z # 0 THEN o.data.z ELSE 1200
        center == st.meshes[i].pos
        dx == Abs(st.pos.x - center.x)
        dz == Abs(st.pos.z - center.z)
    IN IF dx < w \div 2 + 600 /\ dz < depth \div 2 + 600
       THEN LET localZ == Quot((st.pos.z - (center.z - depth \div 2)) * 1000, depth)
                t == Clamp(localZ, 0, 1000)
                height == Quot(h * t, 1000)
            IN [st EXCEPT !.pos.y = BALL_RADIUS + height,
                          !.vel.y = Quot(st.vel.y * 2, 10),
                          !.hit = @ \cup {i}]
       ELSE st

CollideOne(st, o, i) ==
    CASE o.type = "box" -> CollideBox(st, o, i)
      [] o.type = "moving" -> CollideMoving(st, o, i)
      [] o.type = "rotating" -> CollideRotating(st, o, i)
      [] o.type = "ramp" -> CollideRamp(st, o, i)
      [] OTHER -> st

RECURSIVE CollideFrom(_, _, _)
CollideFrom(st, l, i) ==
    IF i > Len(LevelObstacles(l)) THEN st
    ELSE Bind(CollideOne(st, LevelObstacles(l)[i], i), LAMBDA s : CollideFrom(s, l, i + 1))

\* st = [pos, vel, meshes, hit]: the loop over the obstacles array, in order; hit collects
\* the indices of the obstacles whose branch acted
HandleObstacleCollisions(st, l) == CollideFrom(st, l, 1)

---------------------------------------------------------------------------
(* Hole-sink state machine: animate, "Hole detection" and "Sinking animation" *)

NoSink == [active |-> FALSE, t |-> 0, start |-> ZeroV, end |-> ZeroV]

\* eased = t * t * (3 - 2 * t) for t = min(1, elapsed / total), t and eased scaled by 1000
SinkT(elapsed) == Min(1000, Quot(elapsed * 1000, SINK_TOTAL))
\* easing left out: eased = t
SmoothstepLinear(t) == t

Smoothstep(t) == Quot(t * t * (3000 - 2 * t), 1000 * 1000)

\* Vector3.lerpVectors(a, b, alpha): a + (b - a) * alpha
LerpVectors(a, b, alpha) == VAdd(a, VScale(VSub(b, a), alpha, 1000))

\* hole detection that leaves the velocity as it is
HoleDetectionKeepsVelocity(st, l, seenDone) ==
    IF /\ ~seenDone
       /\ ~st.sink.active
       /\ ~st.latch
       /\ DistLess(st.pos, HolePosition(l), HOLE_RADIUS)
    THEN [st EXCEPT !.latch = TRUE,
                    !.sink = [active |-> TRUE, t |-> 0, start |-> st.pos,
                              end |-> [HolePosition(l) EXCEPT !.y = SINK_END_Y]],
                    !.trigger = TRUE]
    ELSE st

\* hole detection that forgets to test holeTriggeredRef
HoleDetectionNoLatch(st, l, seenDone) ==
    IF /\ ~seenDone
       /\ ~st.sink.active
       /\ DistLess(st.pos, HolePosition(l), HOLE_RADIUS)
    THEN [st EXCEPT !.latch = TRUE,
                    !.vel = ZeroV,
                    !.sink = [active |-> TRUE, t |-> 0, start |-> st.pos,
                              end |-> [HolePosition(l) EXCEPT !.y = SINK_END_Y]],
                    !.trigger = TRUE]
    ELSE st

\* the hole-detection block: st = [pos, vel, sink, latch]; fires on distance alone
HoleDetection(st, l, seenDone) ==
    IF /\ ~seenDone
       /\ ~st.sink.active
       /\ ~st.latch
       /\ DistLess(st.pos, HolePosition(l), HOLE_RADIUS)
    THEN [st EXCEPT !.latch = TRUE,
                    !.vel = ZeroV,
                    !.sink = [active |-> TRUE, t |-> 0, start |-> st.pos,
                              end |-> [HolePosition(l) EXCEPT !.y = SINK_END_Y]],
                    !.trigger = TRUE]
    ELSE st

\* a sinking block that completes only once t has passed 1
SinkingAnimationLate(st, dt) ==
    IF st.sink.active
    THEN LET elapsed == st.sink.t + dt
             t == SinkT(elapsed)
             eased == Smoothstep(t)
             lerped == [st EXCEPT !.sink.t = elapsed,
                                  !.pos = LerpVectors(st.sink.start, st.sink.end, eased),
                                  !.scale = 1000 - Quot(SINK_SHRINK * eased, 1000)]
         IN IF elapsed > SINK_TOTAL
            THEN [lerped EXCEPT !.sink.active = FALSE, !.pos = st.sink.end,
                                !.scale = FINAL_SCALE, !.done = TRUE]
            ELSE lerped
    ELSE st

\* the sinking block: st = [pos, scale, sink, done]; the interpolation first, then,
\* when t >= 1, the final placement and the completion
SinkingAnimation(st, dt) ==
    IF st.sink.active
    THEN LET elapsed == st.sink.t + dt
             t == SinkT(elapsed)
             eased == Smoothstep(t)
             lerped == [st EXCEPT !.sink.t = elapsed,
                                  !.pos = LerpVectors(st.sink.start, st.sink.end, eased),
                                  !.scale = 1000 - Quot(SINK_SHRINK * eased, 1000)]
         IN IF t >= 1000
            THEN [lerped EXCEPT !.sink.active = FALSE, !.pos = st.sink.end,
                                !.scale = FINAL_SCALE, !.done = TRUE]
            ELSE lerped
    ELSE st

---------------------------------------------------------------------------
(* Confetti pool.  A slot is [visible, pos, vel, life]; mesh.rotation, which only
   orients the rendered quad, is left out.  The seven Math.random() calls of one
   activation are the fields of a draw, each in thousandths (0 .. 999). *)

createConfettiPool(n) ==
    [i \in 1..n |-> [visible |-> FALSE, pos |-> ZeroV, vel |-> ZeroV, life |-> 0]]

\* the body of the spawn loop for a free slot
Activate(pos, d) ==
    [visible |-> TRUE,
     pos |-> VAdd(pos, Vec(Quot((d.px - 500) * 1200, 1000),
                           400 + Quot(d.py * 600, 1000),
                           Quot((d.pz - 500) * 1200, 1000))),
     vel |-> Vec(Quot((d.vx - 500) * 4000, 1000),
                 3000 + Quot(d.vy * 3000, 1000),
                 Quot((d.vz - 500) * 4000, 1000)),
     life |-> 1200 + Quot(d.life * 2000, 1000)]

\* a spawn iteration that does not skip the visible slots
SpawnStepOverwriting(st, pos, count, d, i) ==
    IF st.spawned >= count
    THEN st
    ELSE [pool |-> [st.pool EXCEPT ![i] = Activate(pos, d)], spawned |-> st.spawned + 1]

\* one iteration of the loop of spawnConfetti, at slot i, on st = [pool, spawned]:
\* break once `count` slots were activated, skip a visible slot, else activate it
SpawnStep(st, pos, count, d, i) ==
    IF st.spawned >= count \/ st.pool[i].visible
    THEN st
    ELSE [pool |-> [st.pool EXCEPT ![i] = Activate(pos, d)], spawned |-> st.spawned + 1]

\* the iterations for the slots lo .. hi, in order
RECURSIVE SpawnLoop(_, _, _, _, _, _)
SpawnLoop(st, pos, count, d, lo, hi) ==
    IF lo > hi THEN st
    ELSE IF lo = hi THEN SpawnStep(st, pos, count, d, lo)
    ELSE Bind(SpawnLoop(st, pos, count, d, lo, (lo + hi) \div 2), LAMBDA mid :
              SpawnLoop(mid, pos, count, d, (lo + hi) \div 2 + 1, hi))

spawnConfetti(pool, pos, count, d) ==
    SpawnLoop([pool |-> pool, spawned |-> 0], pos, count, d, 1, Len(pool)).pool

\* an update that deactivates on the height test alone
UpdateSlotIgnoringLife(c, dt) ==
    IF ~c.visible
    THEN c
    ELSE LET vel == [c.vel EXCEPT !.y = c.vel.y - Quot(GRAVITY * dt, 1000)]
             pos == AddScaled(c.pos, vel, dt)
             life == c.life - dt
         IN [visible |-> ~(pos.y < CONFETTI_FLOOR),
             pos |-> pos, vel |-> vel, life |-> life]

\* the body of the update loop for one slot
UpdateSlot(c, dt) ==
    IF ~c.visible
    THEN c
    ELSE LET vel == [c.vel EXCEPT !.y = c.vel.y - Quot(GRAVITY * dt, 1000)]
             pos == AddScaled(c.pos, vel, dt)
             life == c.life - dt
         IN [visible |-> ~(life <= 0 \/ pos.y < CONFETTI_FLOOR),
             pos |-> pos, vel |-> vel, life |-> life]

updateConfetti(pool, dt) == [i \in 1..Len(pool) |-> UpdateSlot(pool[i], dt)]

\* the active (visible) slots
Active(pool) == {i \in 1..Len(pool) : pool[i].visible}

\* number of free (invisible) slots
Free(pool) == Cardinality({i \in 1..Len(pool) : ~pool[i].visible})

\* a frame whose physics block runs while the sink is active
AnimateFramePhysicsInSink(st, l, seenDone, dt) ==
    Bind(AnimateObstacles(l, st.meshes, st.time + dt, dt), LAMBDA ms1 :
    Bind(LocalFriction(l, st.pos), LAMBDA f :
    Bind(Integrate(st.pos, st.vel, f, dt), LAMBDA integ :
    Bind(HandleObstacleCollisions([pos |-> integ.pos, vel |-> integ.vel, meshes |-> ms1,
                                   hit |-> {}], l),
         LAMBDA coll :
    Bind(HoleDetection([pos |-> coll.pos, vel |-> coll.vel, sink |-> st.sink,
                        latch |-> st.latch, trigger |-> FALSE], l, seenDone), LAMBDA hole :
    Bind(SinkingAnimation([pos |-> hole.pos, scale |-> st.scale, sink |-> hole.sink,
                           done |-> FALSE], dt), LAMBDA sunk :
      [pos |-> sunk.pos, vel |-> hole.vel, scale |-> sunk.scale, sink |-> sunk.sink,
       latch |-> hole.latch, meshes |-> coll.meshes, time |-> st.time + dt,
       f |-> f, moved |-> integ.moved, physics |-> ~st.sink.active,
       trigger |-> hole.trigger, sinkstep |-> hole.sink.active, done |-> sunk.done,
       hit |-> coll.hit, contact |-> integ, animated |-> ms1]))))))

\* the whole of animate(now) for dt = (now - last) / 1000 s, the confetti excepted, on the
\* record st = [pos, vel, scale, sink, latch, meshes, time]
AnimateFrame(st, l, seenDone, dt) ==
    Bind(AnimateObstacles(l, st.meshes, st.time + dt, dt), LAMBDA ms1 :
    Bind(LocalFriction(l, st.pos), LAMBDA f :
    Bind(IF st.sink.active
         THEN [pos |-> st.pos, vel |-> st.vel, moved |-> FALSE]
         ELSE Integrate(st.pos, st.vel, f, dt), LAMBDA integ :
    Bind(IF st.sink.active
         THEN [pos |-> st.pos, vel |-> st.vel, meshes |-> ms1, hit |-> {}]
         ELSE HandleObstacleCollisions([pos |-> integ.pos, vel |-> integ.vel, meshes |-> ms1,
                                        hit |-> {}], l),
         LAMBDA coll :
    Bind(HoleDetection([pos |-> coll.pos, vel |-> coll.vel, sink |-> st.sink,
                        latch |-> st.latch, trigger |-> FALSE], l, seenDone), LAMBDA hole :
    Bind(SinkingAnimation([pos |-> hole.pos, scale |-> st.scale, sink |-> hole.sink,
                           done |-> FALSE], dt), LAMBDA sunk :
      [pos |-> sunk.pos, vel |-> hole.vel, scale |-> sunk.scale, sink |-> sunk.sink,
       latch |-> hole.latch, meshes |-> coll.meshes, time |-> st.time + dt,
       f |-> f, moved |-> integ.moved, physics |-> ~st.sink.active,
       trigger |-> hole.trigger, sinkstep |-> hole.sink.active, done |-> sunk.done,
       hit |-> coll.hit, contact |-> integ, animated |-> ms1]))))))

---------------------------------------------------------------------------
(* Inputs explored *)

\* frame deltas (ms): a repeated timestamp, a slow frame, a frame after a stall
DtSet == {0, 600, 1000}

\* pointer-down points on the ground plane, relative to the ball's (x, z)
Offsets == {Vec(0, 0, 0), Vec(1100, 0, 0)}

\* dragStart - current of a pointer-move: none, a full-power drag, a short drag
MoveDrags == {ZeroV, Vec(8000, 0, 0), Vec(0 - 300, 0, 400)}

\* dragStart - release of a pointer-up
Drags == {ZeroV, Vec(2000, 0, 0 - 1200), Vec(8000, 0, 0), Vec(0 - 600, 0, 800)}

Levels == 1..LAST_LEVEL

\* outcomes of the Math.random() calls of one burst: all lowest, all highest
ConfettiDraws ==
    {[px |-> 0, py |-> 0, pz |-> 0, vx |-> 0, vy |-> 0, vz |-> 0, life |-> 0],
     [px |-> 999, py |-> 999, pz |-> 999, vx |-> 999, vy |-> 999, vz |-> 999, life |-> 999]}

NoPre == [pos |-> ZeroV, vel |-> ZeroV, f |-> 0, dt |-> 0, release |-> ZeroV, rate |-> 0,
          count |-> 0, free |-> 0, hit |-> {}, contact |-> ZeroV, contactVel |-> ZeroV,
          launch |-> ZeroV, animated |-> << >>]

---------------------------------------------------------------------------
(* State after construction: refs at their useRef values, scene effect run for the
   first level; the other levels are entered by handleNext and by a later mount *)

SceneBuilt(l) ==
    /\ level' = l
    /\ ballPos' = SPAWN
    /\ ballScale' = 1000
    /\ isAiming' = FALSE
    /\ dragStart' = ZeroV
    /\ obstacleTime' = 0
    /\ meshes' = InitialMeshes(l)
    /\ confettiPool' = createConfettiPool(POOL_SIZE)
    /\ trajDots' = <<>>

Init ==
    /\ phase = "game"
    /\ level = 1
    /\ ballPos = SPAWN
    /\ ballScale = 1000
    /\ velocityRef = ZeroV
    /\ sinkingRef = NoSink
    /\ holeTriggeredRef = FALSE
    /\ holeDone = FALSE
    /\ holeDoneSeen = FALSE
    /\ strokes = 0
    /\ isAiming = FALSE
    /\ dragStart = ZeroV
    /\ obstacleTime = 0
    /\ meshes = InitialMeshes(level)
    /\ confettiPool = createConfettiPool(POOL_SIZE)
    /\ trajDots = <<>>
    /\ calls = 0
    /\ resets = 0
    /\ last = "init"
    /\ ev = {}
    /\ pre = NoPre

---------------------------------------------------------------------------
(* Pointer handlers *)

\* onPointerDown with the ground point p = ball (x, z) + off
PointerDown(off) ==
    /\ phase = "game"
    /\ strokes < MaxStrokes
    /\ LET p == Vec(ballPos.x + off.x, 0, ballPos.z + off.z)
       IN IF DistLess(p, ballPos, AIM_PICK_DIST)
          THEN isAiming' = TRUE /\ dragStart' = p
          ELSE UNCHANGED <<isAiming, dragStart>>
    /\ last' = "down"
    /\ ev' = {}
    /\ pre' = NoPre
    /\ UNCHANGED <<phase, level, ballPos, ballScale, velocityRef, sinkingRef, holeTriggeredRef,
                   holeDone, holeDoneSeen, strokes, obstacleTime, meshes, confettiPool,
                   trajDots, calls, resets>>

\* one iteration of the loop of simulateTrajectory on st = [points, pos, vel, stopped]:
\* break below the epsilon, else translate by the current velocity, record the sample,
\* then apply the friction
SimStep(st) ==
    IF st.stopped
    THEN st
    ELSE IF LengthSq(st.vel) < EPS_SQ
         THEN [st EXCEPT !.stopped = TRUE]
         ELSE Bind(AddScaled(st.pos, st.vel, TRAJ_DT), LAMBDA p1 :
              Bind(Length(st.vel), LAMBDA s :
                [points |-> Append(st.points, p1),
                 pos |-> p1,
                 \* setLength(l) is normalize().multiplyScalar(l), s being the length
                 vel |-> VScale(st.vel, Max(0, s - Quot(DEFAULT_FRICTION * TRAJ_DT, 1000)),
                                IF s = 0 THEN 1 ELSE s),
                 stopped |-> FALSE]))

\* n consecutive iterations
RECURSIVE SimLoop(_, _)
SimLoop(st, n) ==
    IF n = 0 THEN st
    ELSE IF n = 1 THEN SimStep(st)
    ELSE Bind(SimLoop(st, n \div 2), LAMBDA mid : SimLoop(mid, n - n \div 2))

\* simulateTrajectory(start, vel): localFriction is 1.5 on every level, one iteration
\* per trajectory dot
simulateTrajectory(start, vel) ==
    SimLoop([points |-> <<>>, pos |-> start, vel |-> vel, stopped |-> FALSE], TRAJ_DOTS).points

\* the velocity previewed for a pointer at `current`
PreviewVel(start, current) ==
    LET dir == VSub(start, current)
        length == Min(Length(dir), MAX_DRAG)
    IN VScale(SetLength(dir, length), POWER, 1)

\* a pointer-move whose simulation runs on the ball's own position vector, not on a clone
PointerMoveOnLiveBall(d) ==
    /\ phase = "game"
    /\ IF isAiming
       THEN \E sim \in {simulateTrajectory(ballPos, PreviewVel(dragStart, VSub(dragStart, d)))} :
               /\ trajDots' = [i \in 1..Len(sim) |-> [sim[i] EXCEPT !.y = BALL_RADIUS]]
               /\ ballPos' = IF sim = <<>> THEN ballPos ELSE sim[Len(sim)]
       ELSE /\ d = ZeroV
            /\ UNCHANGED <<trajDots, ballPos>>
    /\ last' = "move"
    /\ ev' = {}
    /\ pre' = [NoPre EXCEPT !.pos = ballPos, !.vel = velocityRef]
    /\ UNCHANGED <<phase, level, ballScale, velocityRef, sinkingRef, holeTriggeredRef,
                   holeDone, holeDoneSeen, strokes, isAiming, dragStart, obstacleTime, meshes,
                   confettiPool, calls, resets>>

\* onPointerMove with the ground point dragStart - d: ignored unless aiming, else the dots
\* take the simulated samples at ball height (the arrow geometry is not modelled)
PointerMove(d) ==
    /\ phase = "game"
    /\ IF isAiming
       THEN \E sim \in {simulateTrajectory(ballPos, PreviewVel(dragStart, VSub(dragStart, d)))} :
               trajDots' = [i \in 1..Len(sim) |-> [sim[i] EXCEPT !.y = BALL_RADIUS]]
       ELSE /\ d = ZeroV
            /\ UNCHANGED trajDots
    /\ last' = "move"
    /\ ev' = {}
    /\ pre' = [NoPre EXCEPT !.pos = ballPos, !.vel = velocityRef]
    /\ UNCHANGED <<phase, level, ballPos, ballScale, velocityRef, sinkingRef, holeTriggeredRef,
                   holeDone, holeDoneSeen, strokes, isAiming, dragStart, obstacleTime, meshes,
                   confettiPool, calls, resets>>

\* an impulse whose power multiplier is applied before the clamp to 6
ImpulseScaledBeforeClamp(start, release) ==
    LET dir == VSub(start, release)
        power == Min(Length(dir) * POWER, MAX_DRAG)
    IN SetLength(dir, power)

\* the impulse of a release: dir = dragStart - release, power = min(|dir|, 6), setLength(power * 5)
Impulse(start, release) ==
    LET dir == VSub(start, release)
        power == Min(Length(dir), MAX_DRAG)
    IN SetLength(dir, power * POWER)

\* onPointerUp that leaves isAiming set
PointerUpStillAiming(kind, d) ==
    /\ phase = "game"
    /\ IF isAiming
       THEN LET release == VSub(dragStart, d)
                v == VAdd(velocityRef, Impulse(dragStart, release))
            IN /\ Abs(v.x) <= MaxSpeed /\ Abs(v.z) <= MaxSpeed
               /\ UNCHANGED isAiming
               /\ velocityRef' = v
               /\ strokes' = strokes + 1
               /\ pre' = [NoPre EXCEPT !.vel = velocityRef, !.release = release]
               /\ trajDots' = <<>>
               /\ ev' = {"shot"}
       ELSE /\ d = ZeroV
            /\ UNCHANGED <<isAiming, velocityRef, strokes, trajDots>>
            /\ pre' = NoPre
            /\ ev' = {}
    /\ last' = kind
    /\ UNCHANGED <<phase, level, ballPos, ballScale, sinkingRef, holeTriggeredRef,
                   holeDone, holeDoneSeen, dragStart, obstacleTime, meshes, confettiPool,
                   calls, resets>>

\* onPointerUp, registered for "pointerup" and "pointerleave" (kind), releasing at dragStart - d
PointerUp(kind, d) ==
    /\ phase = "game"
    /\ IF isAiming
       THEN LET release == VSub(dragStart, d)
                v == VAdd(velocityRef, Impulse(dragStart, release))
            IN /\ Abs(v.x) <= MaxSpeed /\ Abs(v.z) <= MaxSpeed
               /\ isAiming' = FALSE
               /\ velocityRef' = v
               /\ strokes' = strokes + 1
               /\ pre' = [NoPre EXCEPT !.vel = velocityRef, !.release = release]
               /\ trajDots' = <<>>
               /\ ev' = {"shot"}
       ELSE /\ d = ZeroV
            /\ UNCHANGED <<isAiming, velocityRef, strokes, trajDots>>
            /\ pre' = NoPre
            /\ ev' = {}
    /\ last' = kind
    /\ UNCHANGED <<phase, level, ballPos, ballScale, sinkingRef, holeTriggeredRef,
                   holeDone, holeDoneSeen, dragStart, obstacleTime, meshes, confettiPool,
                   calls, resets>>

---------------------------------------------------------------------------
(* The animation frame *)

FrameEvents(r) ==
    (IF r.physics THEN {"physics"} ELSE {})
    \cup (IF r.moved THEN {"moved"} ELSE {})
    \cup (IF r.trigger THEN {"trigger"} ELSE {})
    \cup (IF r.sinkstep THEN {"sink"} ELSE {})
    \cup (IF r.done THEN {"done"} ELSE {})

\* animate(now) with dt = (now - last) / 1000: a trigger spawns a burst at the hole, every
\* frame ends with updateConfetti(dt); on completion onHoleComplete() is called and the
\* parent flips holeDone to true
Frame(dt) ==
    /\ phase = "game"
    /\ obstacleTime + dt <= MaxTime
    /\ \E r \in {AnimateFrame([pos |-> ballPos, vel |-> velocityRef, scale |-> ballScale,
                               sink |-> sinkingRef, latch |-> holeTriggeredRef,
                               meshes |-> meshes, time |-> obstacleTime],
                              level, holeDoneSeen, dt)} :
          /\ ballPos' = r.pos
          /\ velocityRef' = r.vel
          /\ ballScale' = r.scale
          /\ sinkingRef' = r.sink
          /\ holeTriggeredRef' = r.latch
          /\ meshes' = r.meshes
          /\ obstacleTime' = r.time
          /\ calls' = IF r.done THEN calls + 1 ELSE calls
          /\ holeDone' = IF r.done THEN TRUE ELSE holeDone
          /\ IF r.trigger
             THEN \E d \in ConfettiDraws :
                     \E burst \in {spawnConfetti(confettiPool, HolePosition(level), BURST, d)} :
                        confettiPool' = updateConfetti(burst, dt)
             ELSE confettiPool' = updateConfetti(confettiPool, dt)
          /\ ev' = FrameEvents(r)
          /\ pre' = [NoPre EXCEPT !.pos = ballPos, !.vel = velocityRef, !.f = r.f, !.dt = dt,
                                  !.count = IF r.trigger THEN BURST ELSE 0,
                                  !.free = IF r.trigger THEN Free(confettiPool) ELSE 0,
                                  !.hit = r.hit, !.contact = r.contact.pos,
                                  !.contactVel = r.contact.vel, !.animated = r.animated]
    /\ last' = "frame"
    /\ UNCHANGED <<phase, level, holeDoneSeen, strokes, isAiming, dragStart, trajDots, resets>>

---------------------------------------------------------------------------
(* Modal handlers; the modal is rendered only while holeDone *)

\* the ref resets shared by handleNext and handleRetry
ResetRefs ==
    /\ velocityRef' = ZeroV
    /\ sinkingRef' = [sinkingRef EXCEPT !.active = FALSE]
    /\ holeTriggeredRef' = FALSE
    /\ strokes' = 0
    /\ holeDone' = FALSE

\* handleRetry: navigate to the same route, the scene is not rebuilt
HandleRetry ==
    /\ phase = "game"
    /\ holeDone
    /\ resets < MaxResets
    /\ resets' = resets + 1
    /\ ResetRefs
    /\ ballPos' = SPAWN
    /\ ballScale' = 1000
    /\ calls' = 0
    /\ last' = "retry"
    /\ ev' = {}
    /\ pre' = NoPre
    /\ UNCHANGED <<phase, level, holeDoneSeen, isAiming, dragStart, obstacleTime, meshes,
                   confettiPool, trajDots>>

\* handleNext: navigate to min(5, level + 1); a changed level rebuilds the scene
HandleNext ==
    /\ phase = "game"
    /\ holeDone
    /\ resets < MaxResets
    /\ resets' = resets + 1
    /\ ResetRefs
    /\ LET next == Min(LAST_LEVEL, level + 1)
       IN IF next # level
          THEN SceneBuilt(next) /\ holeDoneSeen' = FALSE
          ELSE /\ ballPos' = SPAWN
               /\ ballScale' = 1000
               /\ UNCHANGED <<level, holeDoneSeen, isAiming, dragStart, obstacleTime, meshes,
                              confettiPool, trajDots>>
    /\ calls' = 0
    /\ last' = "next"
    /\ ev' = {}
    /\ pre' = NoPre
    /\ UNCHANGED phase

\* handleMainMenu: setHoleDone(false) and navigate("/menu"), nothing else
HandleMainMenu ==
    /\ phase = "game"
    /\ holeDone
    /\ resets < MaxResets
    /\ resets' = resets + 1
    /\ holeDone' = FALSE
    /\ phase' = "leaving"
    /\ last' = "menu"
    /\ ev' = {}
    /\ pre' = NoPre
    /\ UNCHANGED <<level, ballPos, ballScale, velocityRef, sinkingRef, holeTriggeredRef,
                   holeDoneSeen, strokes, isAiming, dragStart, obstacleTime, meshes,
                   confettiPool, trajDots, calls>>

\* the route no longer matches: the effect's cleanup runs and the component is discarded
Unmount ==
    /\ phase = "leaving"
    /\ phase' = "menu"
    /\ last' = "unmount"
    /\ ev' = {}
    /\ pre' = NoPre
    /\ UNCHANGED <<level, ballPos, ballScale, velocityRef, sinkingRef, holeTriggeredRef,
                   holeDone, holeDoneSeen, strokes, isAiming, dragStart, obstacleTime, meshes,
                   confettiPool, trajDots, calls, resets>>

\* a new Canvas3D is mounted at /game/l: fresh refs, then the scene effect
Mount(l) ==
    /\ phase = "menu"
    /\ phase' = "game"
    /\ SceneBuilt(l)
    /\ velocityRef' = ZeroV
    /\ sinkingRef' = NoSink
    /\ holeTriggeredRef' = FALSE
    /\ holeDoneSeen' = holeDone
    /\ calls' = 0
    /\ last' = "mount"
    /\ ev' = {}
    /\ pre' = NoPre
    /\ UNCHANGED <<holeDone, strokes, resets>>

---------------------------------------------------------------------------

Next ==
    \/ \E off \in Offsets : PointerDown(off)
    \/ \E d \in Drags : PointerUp("up", d)
    \/ \E d \in Drags : PointerUp("leave", d)
    \/ \E dt \in DtSet : Frame(dt)
    \/ HandleRetry
    \/ HandleNext
    \/ HandleMainMenu
    \/ Unmount
    \/ \E l \in Levels : Mount(l)

\* every handler but onPointerMove, which writes nothing but the trajectory dots
Spec == Init /\ [][Next]_vars

NextAim ==
    \/ Next
    \/ \E d \in MoveDrags : PointerMove(d)

\* the same with onPointerMove
SpecAim == Init /\ [][NextAim]_vars

\* the route parameter levelId changes while Canvas3D stays mounted (history navigation,
\* a link to another /game/:levelId): the [level] effect is cleaned up and run again, the
\* refs keep their values, the new closure captures the current holeDone
LevelParamChange(l) ==
    /\ phase = "game"
    /\ l # level
    /\ resets < MaxResets
    /\ resets' = resets + 1
    /\ SceneBuilt(l)
    /\ holeDoneSeen' = holeDone
    /\ last' = "route"
    /\ ev' = {}
    /\ pre' = [NoPre EXCEPT !.pos = ballPos, !.vel = velocityRef]
    /\ UNCHANGED <<phase, velocityRef, sinkingRef, holeTriggeredRef, holeDone, strokes, calls>>

\* levels the route is changed to
RouteTargets == {1, 2, 3}

\* the shot that reaches the hole of level 1
RouteDrags == {Vec(2000, 0, 0 - 1200)}

RouteDt == 600

NextRoute ==
    \/ PointerDown(ZeroV)
    \/ \E d \in RouteDrags : PointerUp("up", d)
    \/ Frame(RouteDt)
    \/ HandleNext
    \/ HandleMainMenu
    \/ Unmount
    \/ \E l \in RouteTargets : Mount(l)
    \/ \E l \in RouteTargets : LevelParamChange(l)

\* one shot, whole frames, and every way the level can change: the modal's Next hole, a
\* new mount after the menu, a change of the route parameter
SpecRoute == Init /\ [][NextRoute]_vars

---------------------------------------------------------------------------
(* The sink to its end: the shot that reaches the hole of level 1, further releases
   while the sink runs, frames of two lengths and repeated timestamps, no modal *)

SinkDtShort == 300
SinkDtLong == 600

SinkDrags == {Vec(2000, 0, 0 - 1200), Vec(0 - 600, 0, 800)}

SinkPointerDown == PointerDown(ZeroV)

SinkPointerUp ==
    /\ obstacleTime = 0 \/ sinkingRef.active
    /\ \E d \in SinkDrags : PointerUp("up", d)

PositiveFrame == Frame(SinkDtShort) \/ Frame(SinkDtLong)

RepeatedFrame == Frame(0)

NextSink ==
    \/ SinkPointerDown
    \/ SinkPointerUp
    \/ PositiveFrame
    \/ RepeatedFrame

\* requestAnimationFrame keeps delivering frames with advancing timestamps
SpecSink == Init /\ [][NextSink]_vars /\ WF_vars(PositiveFrame)

---------------------------------------------------------------------------
(* The integration step on its own: a ball with any position and velocity, no shots,
   no obstacle contact, frames arriving at a fixed rate (with repeated timestamps) *)

StepLevels == {1, 4}

\* pre-step positions: origin, 0.01 inside the +x wall, a corner, beyond the +x wall,
\* the pond centre of level 4, 0.02 inside the pond's rim
StepPositions ==
    {ZeroV,
     Vec(COURSE_LIMIT - 10, BALL_RADIUS, 0),
     Vec(10 - COURSE_LIMIT, BALL_RADIUS, COURSE_LIMIT - 10),
     Vec(COURSE_LIMIT + 600, BALL_RADIUS, 0),
     Vec(0 - 4000, BALL_RADIUS, 0 - 4000),
     Vec(0 - 420, BALL_RADIUS, 0 - 4000)}

StepVelocities ==
    {ZeroV, Vec(1, 0, 0), Vec(151, 0, 0), Vec(2000, 0, 0), Vec(5000, 0, 0),
     Vec(0 - 3000, 0, 4000), Vec(0, 0, 0 - 30000)}

\* frame intervals (ms)
StepRates == {16, 100, 600}

InitStep ==
    /\ phase = "step"
    /\ level \in StepLevels
    /\ ballPos \in StepPositions
    /\ velocityRef \in StepVelocities
    /\ ballScale = 1000
    /\ sinkingRef = NoSink
    /\ holeTriggeredRef = FALSE
    /\ holeDone = FALSE
    /\ holeDoneSeen = FALSE
    /\ strokes = 0
    /\ isAiming = FALSE
    /\ dragStart = ZeroV
    /\ obstacleTime = 0
    /\ meshes = InitialMeshes(level)
    /\ confettiPool = createConfettiPool(POOL_SIZE)
    /\ trajDots = <<>>
    /\ calls = 0
    /\ resets = 0
    /\ last = "init"
    /\ ev = {}
    /\ \E rate \in StepRates : pre = [NoPre EXCEPT !.rate = rate]

\* the friction selection and the integration block of one frame with delta dt
IntegrationStep(dt) ==
    /\ phase = "step"
    /\ \E f \in {LocalFriction(level, ballPos)} :
       \E r \in {Integrate(ballPos, velocityRef, f, dt)} :
          /\ ballPos' = r.pos
          /\ velocityRef' = r.vel
          /\ ev' = IF r.moved THEN {"moved"} ELSE {}
          /\ pre' = [NoPre EXCEPT !.pos = ballPos, !.vel = velocityRef, !.f = f, !.dt = dt,
                                  !.rate = pre.rate]
    /\ last' = "step"
    /\ UNCHANGED <<phase, level, ballScale, sinkingRef, holeTriggeredRef, holeDone,
                   holeDoneSeen, strokes, isAiming, dragStart, obstacleTime, meshes,
                   confettiPool, trajDots, calls, resets>>

TimedStep == IntegrationStep(pre.rate)

RepeatedTimestamp == IntegrationStep(0)

NextStep == TimedStep \/ RepeatedTimestamp

\* requestAnimationFrame keeps delivering frames with advancing timestamps
SpecStep == InitStep /\ [][NextStep]_vars /\ WF_vars(TimedStep)

---------------------------------------------------------------------------
(* The confetti pool on its own: spawn requests of any size against the pool of the
   scene, each followed, as in a frame, by at least one particle step *)

\* requested particle counts: one, the burst of a hole, more than the pool holds
SpawnCounts == {1, BURST, 200}

\* particle step (ms)
ConfettiDt == 600

InitConfetti ==
    /\ phase = "confetti"
    /\ level = 1
    /\ ballPos = SPAWN
    /\ ballScale = 1000
    /\ velocityRef = ZeroV
    /\ sinkingRef = NoSink
    /\ holeTriggeredRef = FALSE
    /\ holeDone = FALSE
    /\ holeDoneSeen = FALSE
    /\ strokes = 0
    /\ isAiming = FALSE
    /\ dragStart = ZeroV
    /\ obstacleTime = 0
    /\ meshes = InitialMeshes(level)
    /\ confettiPool = createConfettiPool(POOL_SIZE)
    /\ trajDots = <<>>
    /\ calls = 0
    /\ resets = 0
    /\ last = "init"
    /\ ev = {}
    /\ pre = NoPre

\* spawnConfetti(holeRef.current.position, count)
SpawnRequest(count, d) ==
    /\ phase = "confetti"
    /\ last # "spawn"
    /\ confettiPool' = spawnConfetti(confettiPool, HolePosition(level), count, d)
    /\ last' = "spawn"
    /\ pre' = [NoPre EXCEPT !.count = count, !.free = Free(confettiPool)]
    /\ UNCHANGED <<phase, level, ballPos, ballScale, velocityRef, sinkingRef, holeTriggeredRef,
                   holeDone, holeDoneSeen, strokes, isAiming, dragStart, obstacleTime, meshes,
                   trajDots, calls, resets, ev>>

\* updateConfetti(dt)
ParticleStep(dt) ==
    /\ phase = "confetti"
    /\ obstacleTime + dt <= MaxTime
    /\ confettiPool' = updateConfetti(confettiPool, dt)
    /\ obstacleTime' = obstacleTime + dt
    /\ last' = "particles"
    /\ pre' = [NoPre EXCEPT !.dt = dt, !.free = Free(confettiPool)]
    /\ UNCHANGED <<phase, level, ballPos, ballScale, velocityRef, sinkingRef, holeTriggeredRef,
                   holeDone, holeDoneSeen, strokes, isAiming, dragStart, meshes,
                   trajDots, calls, resets, ev>>

NextConfetti ==
    \/ \E count \in SpawnCounts, d \in ConfettiDraws : SpawnRequest(count, d)
    \/ ParticleStep(ConfettiDt)

SpecConfetti == InitConfetti /\ [][NextConfetti]_vars

---------------------------------------------------------------------------
(* Particles to their end: bursts at the hole, then particle steps of the frames that
   follow.  updateConfetti reads no clock, so the steps are not counted.  handleRetry
   clears the latch without rebuilding the pool, so a burst can meet the particles of
   the one before it. *)

\* outcomes of the Math.random() calls of one burst: all lowest, all highest, and a
\* fast high particle with the shortest life
ParticleDraws ==
    ConfettiDraws \cup
    {[px |-> 500, py |-> 999, pz |-> 500, vx |-> 500, vy |-> 999, vz |-> 500, life |-> 0]}

\* frame deltas (ms)
ParticleDtShort == 300
ParticleDtLong == 600

\* updateConfetti(dt) of one frame
ParticleFrame(dt) ==
    /\ phase = "confetti"
    /\ confettiPool' = updateConfetti(confettiPool, dt)
    /\ last' = "particles"
    /\ pre' = [NoPre EXCEPT !.dt = dt, !.free = Free(confettiPool)]
    /\ UNCHANGED <<phase, level, ballPos, ballScale, velocityRef, sinkingRef, holeTriggeredRef,
                   holeDone, holeDoneSeen, strokes, isAiming, dragStart, obstacleTime, meshes,
                   trajDots, calls, resets, ev>>

PositiveParticleFrame == ParticleFrame(ParticleDtShort) \/ ParticleFrame(ParticleDtLong)

RepeatedParticleFrame == ParticleFrame(0)

\* the burst of a hole entry, at most one earlier burst still in flight
ParticleBurst ==
    /\ Cardinality(Active(confettiPool)) <= BURST
    /\ \E d \in ParticleDraws : SpawnRequest(BURST, d)

NextParticles ==
    \/ ParticleBurst
    \/ PositiveParticleFrame
    \/ RepeatedParticleFrame

\* requestAnimationFrame keeps delivering frames with advancing timestamps
SpecParticles == InitConfetti /\ [][NextParticles]_vars /\ WF_vars(PositiveParticleFrame)

---------------------------------------------------------------------------
(* Frames with the ball at or near an obstacle: levels 2 to 4, the ball placed relative
   to one obstacle of the level, with some velocity, then frames only *)

ContactLevels == {2, 3, 4}

\* ball (x, z) relative to the obstacle centre: on it, one step short of it, beside it on
\* each side, just out of contact, past its end, before the low end of a ramp
ContactOffsets ==
    {Vec(0, 0, 0), Vec(185, 0, 0), Vec(850, 0, 0), Vec(910, 0, 0), Vec(0 - 850, 0, 300),
     Vec(0, 0, 2300), Vec(400, 0, 0 - 1000), Vec(0 - 2500, 0, 0 - 3300)}

ContactVelocities == {ZeroV, Vec(0 - 2000, 0, 0), Vec(1000, 0, 0 - 3000)}

\* frame delta (ms)
ContactDt == 100

InitContact ==
    /\ phase = "game"
    /\ level \in ContactLevels
    /\ \E i \in 1..Len(LevelObstacles(level)), off \in ContactOffsets :
          ballPos = Vec(LevelObstacles(level)[i].pos.x + off.x, BALL_RADIUS,
                        LevelObstacles(level)[i].pos.z + off.z)
    /\ velocityRef \in ContactVelocities
    /\ ballScale = 1000
    /\ sinkingRef = NoSink
    /\ holeTriggeredRef = FALSE
    /\ holeDone = FALSE
    /\ holeDoneSeen = FALSE
    /\ strokes = 0
    /\ isAiming = FALSE
    /\ dragStart = ZeroV
    /\ obstacleTime = 0
    /\ meshes = InitialMeshes(level)
    /\ confettiPool = createConfettiPool(POOL_SIZE)
    /\ trajDots = <<>>
    /\ calls = 0
    /\ resets = 0
    /\ last = "init"
    /\ ev = {}
    /\ pre = NoPre

ContactFrame == Frame(ContactDt)

SpecContact == InitContact /\ [][ContactFrame]_vars

---------------------------------------------------------------------------
(* The preview against the integrator: the samples predicted for a launch, then the
   ball launched from rest with that velocity and stepped by the live integration rule
   at the preview's dt, on level 1 (no obstacles, default friction) *)

PreviewStarts == {SPAWN, Vec(3000, BALL_RADIUS, 0 - 2000)}

\* launch velocities that stay clear of the walls for 40 steps
PreviewVelocities == {Vec(5000, 0, 0), Vec(0 - 1500, 0, 2000), Vec(3000, 0, 0 - 4000)}

InitPreview ==
    /\ phase = "preview"
    /\ level = 1
    /\ ballPos \in PreviewStarts
    /\ velocityRef \in PreviewVelocities
    /\ trajDots = simulateTrajectory(ballPos, velocityRef)
    /\ ballScale = 1000
    /\ sinkingRef = NoSink
    /\ holeTriggeredRef = FALSE
    /\ holeDone = FALSE
    /\ holeDoneSeen = FALSE
    /\ strokes = 0
    /\ isAiming = FALSE
    /\ dragStart = ZeroV
    /\ obstacleTime = 0
    /\ meshes = InitialMeshes(level)
    /\ confettiPool = createConfettiPool(POOL_SIZE)
    /\ calls = 0
    /\ resets = 0
    /\ last = "init"
    /\ ev = {}
    /\ pre = [NoPre EXCEPT !.launch = velocityRef]

\* the friction selection and the integration block of one frame with dt = 0.06
LiveStep ==
    /\ phase = "preview"
    /\ obstacleTime + TRAJ_DT <= MaxTime
    /\ \E f \in {LocalFriction(level, ballPos)} :
       \E r \in {Integrate(ballPos, velocityRef, f, TRAJ_DT)} :
          /\ ballPos' = r.pos
          /\ velocityRef' = r.vel
          /\ ev' = IF r.moved THEN {"moved"} ELSE {}
          /\ pre' = [NoPre EXCEPT !.pos = ballPos, !.vel = velocityRef, !.f = f, !.dt = TRAJ_DT,
                                  !.launch = pre.launch]
    /\ obstacleTime' = obstacleTime + TRAJ_DT
    /\ last' = "live"
    /\ UNCHANGED <<phase, level, ballScale, sinkingRef, holeTriggeredRef, holeDone,
                   holeDoneSeen, strokes, isAiming, dragStart, meshes, confettiPool,
                   trajDots, calls, resets>>

SpecPreview == InitPreview /\ [][LiveStep]_vars

---------------------------------------------------------------------------
(* Completion callback, resets and aim input during a sink *)

\* C1: onHoleComplete is invoked exactly once for each Idle->Sinking trigger, when the
\* sink ends: since the last reset or mount it has been called at most once, it has
\* been called exactly when a triggered sink has ended, never while the sink is still
\* running, and a completing frame is the one that raises the count and holeDone.
\* Retry and next level clear the latch and the count, so a later entry reports again.
C1_CallbackOncePerTrigger ==
    /\ calls <= 1
    /\ (calls = 1) <=> (holeTriggeredRef /\ ~sinkingRef.active)
    /\ sinkingRef.active => (holeTriggeredRef /\ calls = 0)
    /\ (last = "frame" /\ "done" \in ev) => (calls = 1 /\ holeDone)
    /\ last \in {"retry", "next", "mount"} => (calls = 0 /\ ~holeTriggeredRef)

\* a hole completed and reported after an earlier reset
C1_SecondHoleAfterReset ==
    /\ resets >= 1
    /\ last = "frame"
    /\ "done" \in ev
    /\ calls = 1

\* C2: every reset request (retry, next level, main menu) leaves the sink inactive, the
\* latch cleared, the velocity zero and the ball at spawn with scale 1.
C2_ResetRestoresSpawn ==
    last \in {"retry", "next", "menu"} =>
        /\ ~sinkingRef.active
        /\ ~holeTriggeredRef
        /\ velocityRef = ZeroV
        /\ ballPos = SPAWN
        /\ ballScale = 1000

\* C3: aim input during a sink leaves the velocity at zero: it is zero while the sink
\* is active and still zero in the frame that finishes the sink.
C3_VelocityZeroDuringSink ==
    /\ sinkingRef.active => velocityRef = ZeroV
    /\ (last = "frame" /\ "done" \in ev) => velocityRef = ZeroV

---------------------------------------------------------------------------
(* The integration step: limits, friction decay, bounce *)

WithinLimits(p) == Abs(p.x) <= COURSE_LIMIT /\ Abs(p.z) <= COURSE_LIMIT

StrictlyInside(p) == Abs(p.x) < COURSE_LIMIT /\ Abs(p.z) < COURSE_LIMIT

Moving(v) == LengthSq(v) > EPS_SQ

\* the speed the step description prescribes after friction: max(0, |v| - f * dt)
SpeedAfterFriction(v, f, dt) == Max(0, Length(v) - Quot(f * dt, 1000))

AtRest == \A v \in {velocityRef} : ~Moving(v)

\* C5 as stated: friction brings |v| to exactly 0: once a step with positive dt no
\* longer changes the velocity, the velocity is the zero vector.
C5_RestIsExactlyZero ==
    (last = "step" /\ pre.dt > 0 /\ velocityRef = pre.vel) => velocityRef = ZeroV

\* C5 amended: no step increases |v|; friction never reverses a component (a component
\* changes sign only on a wall bounce, which puts the ball on the limit); after finitely
\* many steps with positive dt the speed is at or below the stationary epsilon, possibly
\* not 0, and from then on neither velocity nor position changes.
C5_FrictionSettles ==
    /\ [][LengthSq(velocityRef') <= LengthSq(velocityRef)]_vars
    /\ [][StrictlyInside(ballPos') =>
             /\ velocityRef.x * velocityRef'.x >= 0
             /\ velocityRef.z * velocityRef'.z >= 0]_vars
    /\ <>[]AtRest
    /\ [][~Moving(velocityRef) => (velocityRef' = velocityRef /\ ballPos' = ballPos)]_vars

\* a ball that friction stopped with a residual velocity below the epsilon
C5_RestWithResidue ==
    /\ last = "step"
    /\ Moving(pre.vel)
    /\ ~Moving(velocityRef)
    /\ velocityRef # ZeroV

\* C6: a step with speed above the epsilon sets the speed to max(0, |v| - f * dt) (to
\* within the rounding of the components), keeps the direction, and translates by the
\* new velocity times dt (stated for steps that end strictly inside the limits, where
\* no wall test fires); v = (5,0,0), f = 1.5, dt = 0.1 from the origin gives (4.85,0,0)
\* at (0.485,0,0).
C6_StepByNewVelocity ==
    /\ (last = "step" /\ Moving(pre.vel) /\ StrictlyInside(ballPos)) =>
           LET target == SpeedAfterFriction(pre.vel, pre.f, pre.dt)
               slack == Abs(pre.vel.x) + Abs(pre.vel.y) + Abs(pre.vel.z)
           IN /\ Length(velocityRef) <= target
              /\ Length(velocityRef) >= target - 2
              /\ Dot(pre.vel, velocityRef) >= 0
              /\ Abs(pre.vel.x * velocityRef.z - pre.vel.z * velocityRef.x) <= slack
              /\ Abs(pre.vel.x * velocityRef.y - pre.vel.y * velocityRef.x) <= slack
              /\ Abs(pre.vel.y * velocityRef.z - pre.vel.z * velocityRef.y) <= slack
              /\ ballPos = VAdd(pre.pos, VScale(velocityRef, pre.dt, 1000))
    /\ (last = "step" /\ pre.pos = ZeroV /\ pre.vel = Vec(5000, 0, 0)
           /\ pre.f = 1500 /\ pre.dt = 100) =>
           (velocityRef = Vec(4850, 0, 0) /\ ballPos = Vec(485, 0, 0))

\* the worked example has been stepped
C6_ExampleStepped ==
    /\ last = "step"
    /\ pre.pos = ZeroV
    /\ pre.vel = Vec(5000, 0, 0)
    /\ pre.f = 1500
    /\ pre.dt = 100
    /\ ballPos = Vec(485, 0, 0)

\* the bounce scenario: x = limit - 0.01, v = (2,0,0), default friction, a step that
\* carries the ball across the +x limit
BounceScenario ==
    /\ last = "step"
    /\ pre.pos = Vec(COURSE_LIMIT - 10, BALL_RADIUS, 0)
    /\ pre.vel = Vec(2000, 0, 0)
    /\ pre.f = DEFAULT_FRICTION
    /\ pre.dt > 0

\* C7 as stated: the scenario ends with x == limit and v.x == -1.6.
C7_ScenarioMinusOnePointSix ==
    BounceScenario => (ballPos.x = COURSE_LIMIT /\ velocityRef.x = 0 - 1600)

\* the velocity after friction and the translated, not yet clamped, position of a step
Slowed(v, f, dt) == SetLength(v, SpeedAfterFriction(v, f, dt))

Translated(p, v, f, dt) == VAdd(p, VScale(Slowed(v, f, dt), dt, 1000))

\* one axis of the bounce rule: t the translated coordinate, w the slowed component,
\* c and v the coordinate and component the step left
AxisBounced(t, w, c, v) ==
    IF Abs(t) > COURSE_LIMIT
    THEN /\ c = (IF t > 0 THEN COURSE_LIMIT ELSE 0 - COURSE_LIMIT)
         /\ v = Quot(w * (0 - WALL_BOUNCE), 1000)
    ELSE c = t /\ v = w

\* C7 amended: when the translation of a step carries a coordinate past the limit, the
\* coordinate ends exactly on the limit and that axis's component, already reduced by
\* friction, is negated and scaled by 0.8, each axis on its own; the scenario ends with
\* x == limit and v.x == -0.8 * (2 - 1.5 * dt), which is never -1.6.
C7_BounceAfterFriction ==
    /\ (last = "step" /\ Moving(pre.vel)) =>
           LET w == Slowed(pre.vel, pre.f, pre.dt)
               t == Translated(pre.pos, pre.vel, pre.f, pre.dt)
           IN /\ AxisBounced(t.x, w.x, ballPos.x, velocityRef.x)
              /\ AxisBounced(t.z, w.z, ballPos.z, velocityRef.z)
    /\ BounceScenario =>
           /\ ballPos.x = COURSE_LIMIT
           /\ velocityRef.x = Quot((2000 - Quot(DEFAULT_FRICTION * pre.dt, 1000)) * (0 - 800), 1000)
           /\ velocityRef.x > 0 - 1600

\* the scenario stepped with dt = 0.1: x on the limit, v.x = -1.48
C7_ScenarioBounced ==
    /\ BounceScenario
    /\ pre.dt = 100
    /\ ballPos.x = COURSE_LIMIT
    /\ velocityRef.x = 0 - 1480

---------------------------------------------------------------------------
(* Sink interpolation, stroke counting, shot impulse *)

\* C8: while a sink is active, with t = min(1, elapsed / 1.2) and eased = t*t*(3 - 2t),
\* the position is lerp(start, end, eased) and the scale 1 - 0.7 * eased; the sinking
\* block run at elapsed 0 gives the start and scale 1, elapsed 0.6 the midpoint (to the rounding of a half) and scale 0.65; the
\* frame in which elapsed reaches 1.2 leaves the position exactly on the end, the scale
\* exactly 0.3 and the sink inactive.
C8_SinkInterpolation ==
    /\ sinkingRef.active =>
           LET t == Min(1000, Quot(sinkingRef.t * 1000, 1200))
               eased == Quot(t * t * (3000 - 2 * t), 1000000)
               a == sinkingRef.start
               b == sinkingRef.end
           IN /\ sinkingRef.t < 1200
              /\ ballPos.x = a.x + Quot((b.x - a.x) * eased, 1000)
              /\ ballPos.y = a.y + Quot((b.y - a.y) * eased, 1000)
              /\ ballPos.z = a.z + Quot((b.z - a.z) * eased, 1000)
              /\ ballScale = 1000 - Quot(700 * eased, 1000)
              /\ LET atZero == SinkingAnimation([pos |-> ballPos, scale |-> ballScale,
                                                 sink |-> [sinkingRef EXCEPT !.t = 0],
                                                 done |-> FALSE], 0)
                 IN atZero.pos = a /\ atZero.scale = 1000 /\ atZero.sink.active
              /\ sinkingRef.t = 600 =>
                    /\ ballScale = 650
                    /\ Abs(2 * ballPos.x - (a.x + b.x)) <= 1
                    /\ Abs(2 * ballPos.y - (a.y + b.y)) <= 1
                    /\ Abs(2 * ballPos.z - (a.z + b.z)) <= 1
    /\ (last = "frame" /\ "done" \in ev) =>
           /\ sinkingRef.t >= 1200
           /\ ~sinkingRef.active
           /\ ballPos = sinkingRef.end
           /\ ballPos = [HolePosition(level) EXCEPT !.y = 0 - 500]
           /\ ballScale = 300

\* a sink that ended in the frame where elapsed is exactly 1.2
C8_SinkEndedOnTime ==
    /\ last = "frame"
    /\ "done" \in ev
    /\ sinkingRef.t = 1200
    /\ ballPos = sinkingRef.end
    /\ ballScale = 300

\* C9: the stroke counter goes up by exactly one on a pointer-up or pointer-leave that
\* arrives while aiming (which also ends the gesture), stays as it is on one that arrives
\* while not aiming, and is touched by nothing else but the retry / next-level reset to
\* 0: frames, the completing frame included, never change it.
C9_StrokePerGesture ==
    [][/\ (last' \in {"up", "leave"} /\ isAiming) => (strokes' = strokes + 1 /\ ~isAiming')
       /\ (last' \in {"up", "leave"} /\ ~isAiming) => strokes' = strokes
       /\ last' \in {"retry", "next"} => strokes' = 0
       /\ last' \notin {"up", "leave", "retry", "next"} => strokes' = strokes
       /\ calls' # calls => strokes' \in {strokes, 0}]_vars

\* a second gesture, ended by pointer-leave, counted after the hole was reported
C9_GestureCountedAfterCompletion ==
    /\ last = "leave"
    /\ "shot" \in ev
    /\ strokes = 2
    /\ calls = 1

\* C10: a released shot adds to the velocity a vector along dragStart - release of
\* magnitude 5 * min(|dragStart - release|, 6) (to the rounding of the components), so
\* at most 30, whatever the state of the sink or the hole.
C10_ImpulseOnRelease ==
    "shot" \in ev =>
        LET d == VSub(dragStart, pre.release)
            imp == VSub(velocityRef, pre.vel)
            mag == 5 * Min(Length(d), 6000)
        IN /\ Abs(Length(imp) - mag) <= 5
           /\ Length(imp) <= 30000
           /\ Dot(imp, d) >= 0
           /\ Abs(imp.x * d.z - imp.z * d.x) <= Abs(d.x) + Abs(d.z)
           /\ imp.y = 0
           /\ d = ZeroV => imp = ZeroV

\* a full-power shot released while the ball is sinking
C10_FullPowerShotDuringSink ==
    /\ "shot" \in ev
    /\ sinkingRef.active
    /\ Length(VSub(dragStart, pre.release)) > 6000
    /\ Length(VSub(velocityRef, pre.vel)) = 30000

---------------------------------------------------------------------------
(* Confetti pool *)

\* C11: a spawn request for n particles on a pool with m free slots activates exactly
\* min(n, m) of them, also when n > m, keeps the pool at its 160 slots and leaves every
\* slot that was already active as it was.
C11_SpawnActivatesMin ==
    /\ Len(confettiPool) = POOL_SIZE
    /\ \A n \in SpawnCounts, d \in ConfettiDraws :
          \E q \in {spawnConfetti(confettiPool, HolePosition(level), n, d)} :
             /\ Len(q) = POOL_SIZE
             /\ Active(confettiPool) \subseteq Active(q)
             /\ Cardinality(Active(q) \ Active(confettiPool)) = Min(n, Free(confettiPool))
             /\ \A i \in Active(confettiPool) : q[i] = confettiPool[i]

\* a request for more particles than there were free slots, some slots being free and
\* some active
C11_RequestBeyondFree ==
    /\ last = "spawn"
    /\ 0 < pre.free
    /\ pre.free < POOL_SIZE
    /\ pre.free < pre.count
    /\ Free(confettiPool) = 0

---------------------------------------------------------------------------
(* Obstacle contacts *)

ObType(i) == LevelObstacles(level)[i].type

\* squared distance from p to the bounding box of obstacle i
BoxDistSq(p, i) ==
    LengthSq(VSub(ClampPoint(Box3(LevelObstacles(level)[i].size, meshes[i]), p), p))

\* the last frame ran the physics and only obstacle i acted in its collision phase
OnlyHit(i) == last = "frame" /\ pre.hit = {i} /\ "sink" \notin ev

\* C12: the 0.04 nudge of a Box contact (along the horizontal direction from the obstacle
\* centre to the ball, +X when that direction is degenerate) never leaves the ball centre
\* closer to the obstacle's bounding box than it was before the nudge: in the frames
\* where a box acted, and for the box branch applied to the ball wherever it is.
C12_NudgeNotCloser ==
    \A i \in 1..Len(LevelObstacles(level)) :
       ObType(i) = "box" =>
          /\ OnlyHit(i) => /\ BoxDistSq(ballPos, i) >= BoxDistSq(pre.contact, i)
                           /\ ballPos # pre.contact
          /\ \E r \in {CollideBox([pos |-> ballPos, vel |-> velocityRef, meshes |-> meshes,
                                    hit |-> {}], LevelObstacles(level)[i], i)} :
                BoxDistSq(r.pos, i) >= BoxDistSq(ballPos, i)

\* a box contact with the ball centre exactly over the obstacle centre, nudged along +X
C12_DegenerateNudgedAlongX ==
    \E i \in 1..Len(LevelObstacles(level)) :
       /\ ObType(i) = "box"
       /\ OnlyHit(i)
       /\ pre.contact.x = meshes[i].pos.x /\ pre.contact.z = meshes[i].pos.z
       /\ ballPos = VAdd(pre.contact, Vec(40, 0, 0))

\* a box contact from outside the box, nudged further away from it
C12_NudgedAway ==
    \E i \in 1..Len(LevelObstacles(level)) :
       /\ ObType(i) = "box"
       /\ OnlyHit(i)
       /\ BoxDistSq(pre.contact, i) > 0
       /\ BoxDistSq(ballPos, i) > BoxDistSq(pre.contact, i)

---------------------------------------------------------------------------
(* Trajectory preview *)

\* C13: a pointer-move, aiming or not, leaves the ball position, scale and velocity, the
\* sink state, the latch, the obstacle meshes and clock and the confetti unchanged, and
\* shows at most 40 samples.
C13_PreviewLeavesLiveState ==
    [][last' = "move" =>
          /\ UNCHANGED <<ballPos, ballScale, velocityRef, sinkingRef, holeTriggeredRef,
                         meshes, obstacleTime, confettiPool, holeDone, strokes>>
          /\ Len(trajDots') <= TRAJ_DOTS]_vars

\* a full-power preview during an active sink: all 40 dots shown, the first one ahead of
\* the ball
C13_FullPreviewDuringSink ==
    /\ last = "move"
    /\ isAiming
    /\ sinkingRef.active
    /\ Len(trajDots) = TRAJ_DOTS
    /\ trajDots[1] # [ballPos EXCEPT !.y = BALL_RADIUS]

---------------------------------------------------------------------------
(* After the sink *)

\* the sink of this hole has completed and no modal request has been made since
SunkNoReset == phase = "game" /\ holeDone /\ calls = 1 /\ ~sinkingRef.active

\* C14: once a sink has completed, the ball is at the sink's end position with scale 0.3
\* in every later frame until a reset, whatever pointer events occurred during or after
\* the sink.
C14_BallStaysSunk ==
    SunkNoReset => ballPos = sinkingRef.end /\ ballScale = FINAL_SCALE

---------------------------------------------------------------------------
(* Reachability of the hole *)

\* the position nearest to p that a rolling ball can take: both horizontal coordinates
\* within the course limit, the centre at ball height
NearestInBounds(p) ==
    Vec(Clamp(p.x, 0 - COURSE_LIMIT, COURSE_LIMIT), BALL_RADIUS,
        Clamp(p.z, 0 - COURSE_LIMIT, COURSE_LIMIT))

\* C15: on the level being played, the hole centre is within HOLE_RADIUS (3D distance) of
\* a position the ball can take inside the course bounds, so that some sequence of shots
\* and frames triggers the sink.
C15_HoleWithinReach ==
    phase = "game" =>
       DistLess(NearestInBounds(HolePosition(level)), HolePosition(level), HOLE_RADIUS)

\* on level 2 the trigger distance is never met: the latch stays clear
C15_Level2NeverTriggers ==
    (phase = "game" /\ level = 2) => ~holeTriggeredRef /\ "trigger" \notin ev

---------------------------------------------------------------------------
(* Water friction *)

\* the (x, z) distance between a and b is below r
HorizDistLess(a, b, r) ==
    (a.x - b.x) * (a.x - b.x) + (a.z - b.z) * (a.z - b.z) < r * r

\* p is horizontally within the radius of a Water obstacle of level l
OverWater(l, p) ==
    \E i \in 1..Len(LevelObstacles(l)) :
       /\ LevelObstacles(l)[i].type = "water"
       /\ HorizDistLess(p, LevelObstacles(l)[i].pos, LevelObstacles(l)[i].radius)

\* C16: the friction of an integration step is 4.0 if and only if the ball's horizontal
\* (x, z) distance to a Water obstacle's centre is below its radius, whatever the ball's
\* height, and 1.5 otherwise.
C16_FrictionByHorizontalDistance ==
    last = "step" =>
       pre.f = (IF OverWater(level, pre.pos) THEN 4000 ELSE DEFAULT_FRICTION)

---------------------------------------------------------------------------
(* Preview against live integration *)

\* number of live steps taken since the launch
LiveSteps == obstacleTime \div TRAJ_DT

\* a and b differ by at most tol on every axis
Near(a, b, tol) ==
    /\ Abs(a.x - b.x) <= tol
    /\ Abs(a.y - b.y) <= tol
    /\ Abs(a.z - b.z) <= tol

\* C17: the k-th preview sample is the position of a ball launched from rest with the
\* previewed velocity after k live integration steps of dt = 0.06 at friction 1.5 (no
\* obstacles, no wall contact), to within the rounding of k steps.
C17_PreviewSampleIsLivePosition ==
    (/\ last = "live"
     /\ LiveSteps \in 1..Len(trajDots)
     /\ StrictlyInside(ballPos))
    => Near(trajDots[LiveSteps], ballPos, 2 * LiveSteps)

\* C17 as the code has it: the preview translates by the velocity it has before the
\* friction, the live step by the velocity after it, so the k-th sample leads the live
\* position after k steps by dt times the speed lost so far (launch velocity minus
\* current velocity); the preview ends after 40 samples or when the velocity the live
\* ball has after as many steps is below the epsilon.
C17_PreviewLeadsLive ==
    (/\ last = "live"
     /\ LiveSteps \in 1..Len(trajDots)
     /\ StrictlyInside(ballPos))
    => /\ Near(trajDots[LiveSteps],
               AddScaled(ballPos, VSub(pre.launch, velocityRef), TRAJ_DT), 2 * LiveSteps)
       /\ LiveSteps = Len(trajDots) => \/ Len(trajDots) = TRAJ_DOTS
                                       \/ LengthSq(velocityRef) < EPS_SQ
       /\ LiveSteps < Len(trajDots) => LengthSq(velocityRef) >= EPS_SQ

\* a preview that stopped before 40 samples, its last sample ahead of the ball at rest
C17_ShortPreviewAhead ==
    /\ last = "live"
    /\ LiveSteps = Len(trajDots)
    /\ Len(trajDots) < TRAJ_DOTS
    /\ velocityRef = ZeroV
    /\ ~Near(trajDots[LiveSteps], ballPos, 2 * LiveSteps)

---------------------------------------------------------------------------
(* The Idle -> Sinking transition *)

\* latch clear, no sink active, completion not reported
Armed == ~holeTriggeredRef /\ ~sinkingRef.active /\ ~holeDone

\* the first n invisible slots of the pool, in index order
FirstFree(pool, n) ==
    {i \in 1..Len(pool) :
        /\ ~pool[i].visible
        /\ Cardinality({j \in 1..(i - 1) : ~pool[j].visible}) < n}

\* slot c was activated within the jitter box over point p and then stepped by dt
SpawnedAt(c, p, dt) ==
    \E p0 \in {VSub(c.pos, VScale(c.vel, dt, 1000))} :
       /\ Abs(p0.x - p.x) <= 600
       /\ p0.y - p.y >= 400 /\ p0.y - p.y <= 1000
       /\ Abs(p0.z - p.z) <= 600

\* C18: a frame starts the sink exactly when the latch is clear, no sink is active,
\* completion has not been reported and the ball, after the frame's physics, is closer
\* than HOLE_RADIUS to the hole centre; that frame zeroes the velocity, sets the latch,
\* records the ball position as start and the hole centre at y = -0.5 as end, and spawns
\* a burst of 60 particles over the hole; the latch is cleared by nothing but a reset.
C18_TriggerExactlyWhenArmedAndNear ==
    [][/\ (last' = "frame" /\ "trigger" \in ev')
          => /\ Armed
             /\ DistLess(sinkingRef'.start, HolePosition(level), HOLE_RADIUS)
             /\ velocityRef' = ZeroV
             /\ holeTriggeredRef'
             /\ sinkingRef'.end = [HolePosition(level) EXCEPT !.y = SINK_END_Y]
             /\ sinkingRef'.end.y < 0
             /\ pre'.count = BURST
             /\ \E new \in {FirstFree(confettiPool, BURST)} :
                   /\ Cardinality(new) = Min(BURST, Free(confettiPool))
                   /\ \A i \in new : SpawnedAt(confettiPool'[i], HolePosition(level), pre'.dt)
       /\ (last' = "frame" /\ "trigger" \notin ev' /\ Armed)
          => ~DistLess(ballPos', HolePosition(level), HOLE_RADIUS)
       /\ (holeTriggeredRef /\ ~holeTriggeredRef') => last' \in {"retry", "next", "mount"}
      ]_vars

\* the frame that started a sink: latch set, velocity zero, part of the burst in the air
C18_SinkStartedWithBurst ==
    /\ last = "frame"
    /\ "trigger" \in ev
    /\ sinkingRef.active
    /\ sinkingRef.start # sinkingRef.end
    /\ holeTriggeredRef
    /\ pre.vel # ZeroV
    /\ velocityRef = ZeroV
    /\ Cardinality(Active(confettiPool)) = BURST

---------------------------------------------------------------------------
(* Physics suspended while sinking *)

\* C19: a frame that begins with the sink active runs neither the integrator, nor the wall
\* bounce, nor the obstacle resolver: the velocity is the one the frame began with, no
\* obstacle contact is applied, and the ball position is the interpolation between the
\* stored start and end at the advanced sink time (the end itself once the sink is over).
C19_NoPhysicsWhileSinking ==
    [][(last' = "frame" /\ sinkingRef.active)
          => /\ velocityRef' = velocityRef
             /\ pre'.hit = {}
             /\ "physics" \notin ev' /\ "moved" \notin ev'
             /\ sinkingRef'.start = sinkingRef.start /\ sinkingRef'.end = sinkingRef.end
             /\ \E eased \in {Smoothstep(Min(1000, Quot(sinkingRef'.t * 1000, SINK_TOTAL)))} :
                   ballPos' = IF sinkingRef'.t >= SINK_TOTAL
                              THEN sinkingRef.end
                              ELSE LerpVectors(sinkingRef.start, sinkingRef.end, eased)
      ]_vars

\* a frame of non-zero length passed during a sink while the ball had a velocity
C19_SinkFrameWithVelocity ==
    /\ last = "frame"
    /\ pre.dt > 0
    /\ "sink" \in ev /\ "trigger" \notin ev
    /\ pre.vel # ZeroV
    /\ velocityRef = pre.vel
    /\ ballPos # pre.pos

---------------------------------------------------------------------------
(* Degenerate contact direction *)

\* the last frame's only contact was with obstacle i and the direction from its centre to
\* the ball was zero-length: horizontally for a box or a plank, in space for a moving block
DegenerateHit(i) ==
    /\ OnlyHit(i)
    /\ IF ObType(i) = "moving"
       THEN pre.contact = meshes[i].pos
       ELSE pre.contact.x = meshes[i].pos.x /\ pre.contact.z = meshes[i].pos.z

\* C20: a Box, MovingBlock or RotatingPlank contact whose direction from the obstacle
\* centre to the ball is zero-length still acts along a unit vector: the ball is nudged
\* by the full 0.04 (box) or 0.03 (plank), the moving block adds a velocity of magnitude 5.
C20_DegenerateContactActsAlongUnit ==
    \A i \in 1..Len(LevelObstacles(level)) :
       DegenerateHit(i) =>
          /\ ObType(i) = "box" => Length(VSub(ballPos, pre.contact)) = 40
          /\ ObType(i) = "rotating" => Length(VSub(ballPos, pre.contact)) = 30
          /\ ObType(i) = "moving" => Length(VSub(velocityRef, pre.contactVel)) = 5 * 1000

\* only the box branch substitutes a direction: a degenerate box contact nudges the ball
\* 0.04 along +X and reflects the velocity about +X
C20_BoxSubstitutesPlusX ==
    \A i \in 1..Len(LevelObstacles(level)) :
       (DegenerateHit(i) /\ ObType(i) = "box") =>
          /\ ballPos = VAdd(pre.contact, Vec(40, 0, 0))
          /\ velocityRef = VScale(Reflect(pre.contactVel, Vec(1000, 0, 0)), 7, 10)

\* a degenerate plank contact leaves the ball where it is and only scales the velocity
C20_PlankLeavesBallInPlace ==
    \A i \in 1..Len(LevelObstacles(level)) :
       (DegenerateHit(i) /\ ObType(i) = "rotating") =>
          /\ ballPos = pre.contact
          /\ velocityRef = VScale(pre.contactVel, 75, 100)

\* a ball that rolled onto the exact centre of a plank in the last frame
C20_RolledOntoPlankCentre ==
    \E i \in 1..Len(LevelObstacles(level)) :
       /\ DegenerateHit(i)
       /\ ObType(i) = "rotating"
       /\ "moved" \in ev
       /\ pre.contactVel # ZeroV

---------------------------------------------------------------------------
(* Moving block *)

\* where the animator alone puts obstacle i at obstacle time t: the base position with
\* the oscillation offset on its axis
BlockAt(i, t) == AnimateMesh(LevelObstacles(level)[i], InitialMeshes(level)[i], t, 0).pos

C21_AxisCoordinateFromTime ==
    \A i \in 1..Len(LevelObstacles(level)) :
       (ObType(i) = "moving" /\ last = "frame") =>
          pre.animated[i].pos.x = BlockAt(i, obstacleTime).x

\* a frame that began with the block still displaced off its axis by an earlier contact
C21_NudgeCarriedOver ==
    \E i \in 1..Len(LevelObstacles(level)) :
       /\ ObType(i) = "moving" /\ last = "frame"
       /\ i \notin pre.hit
       /\ pre.animated[i].pos.z # LevelObstacles(level)[i].pos.z

\* the last frame ran the physics, the moving block i acted in it, and apart from it at
\* most ramps did (a ramp changes only the height and the vertical velocity)
MovingHit(i) ==
    /\ last = "frame" /\ "sink" \notin ev
    /\ ObType(i) = "moving"
    /\ i \in pre.hit
    /\ \A j \in pre.hit \ {i} : ObType(j) = "ramp"

\* the velocity the moving branch found: the integrated one, its y damped if a ramp acted
VelocityAtBlock(i) ==
    IF pre.hit = {i} THEN pre.contactVel
    ELSE [pre.contactVel EXCEPT !.y = Quot(pre.contactVel.y * 2, 10)]

\* u and w are parallel and point the same way (to the rounding of their components)
SameDirection(u, w) ==
    \E a \in {Normalize(u)}, b \in {Normalize(w)} :
       Abs(a.x - b.x) <= 10 /\ Abs(a.y - b.y) <= 10 /\ Abs(a.z - b.z) <= 10

C22_ImpulseFiveBlockBackPointTwo ==
    \A i \in 1..Len(LevelObstacles(level)) :
       MovingHit(i) =>
          \E dir \in {VSub(ballPos, pre.animated[i].pos)} :
             /\ DistLess(ballPos, pre.animated[i].pos, BALL_RADIUS + 600)
             /\ LengthSq(dir) > 0 =>
                   /\ Abs(Length(VSub(velocityRef, VelocityAtBlock(i))) - 5 * 1000) <= 10
                   /\ SameDirection(VSub(velocityRef, VelocityAtBlock(i)), dir)
                   /\ Abs(Length(VSub(meshes[i].pos, pre.animated[i].pos)) - 200) <= 2
                   /\ SameDirection(VSub(pre.animated[i].pos, meshes[i].pos), dir)

\* a contact with a ball at rest beside the block: the ball leaves with speed 5
C22_RestingBallPushed ==
    \E i \in 1..Len(LevelObstacles(level)) :
       /\ MovingHit(i)
       /\ pre.contactVel = ZeroV
       /\ Abs(Length(velocityRef) - 5 * 1000) <= 10
       /\ meshes[i].pos # pre.animated[i].pos

---------------------------------------------------------------------------
(* Velocity after a box contact *)

\* the direction the box branch of obstacle i used in the last frame: horizontal, from
\* the obstacle centre to the ball as the collision phase found it, +X when degenerate
OutwardDir(i) ==
    LET d0 == FlatDir(pre.contact, meshes[i])
    IN IF LengthSq(d0) < EPS_SQ THEN Vec(1000, 0, 0) ELSE d0

\* C23: after a frame in which a box branch acted, the component of the ball velocity
\* along the outward direction (obstacle centre to ball) is not negative, in a first
\* contact and in a contact that continues from the frame before.
C23_VelocityNotIntoBox ==
    \A i \in 1..Len(LevelObstacles(level)) :
       (ObType(i) = "box" /\ OnlyHit(i)) =>
          \E dir \in {OutwardDir(i)} :
             Dot(velocityRef, dir) >= 0

\* what the reflection does: the outward component changes sign and is scaled by 0.7,
\* whichever sign it had
C23_OutwardComponentFlipped ==
    \A i \in 1..Len(LevelObstacles(level)) :
       (ObType(i) = "box" /\ OnlyHit(i)) =>
          \E dir \in {OutwardDir(i)} :
             /\ Dot(pre.contactVel, dir) > 7000 => Dot(velocityRef, dir) < 0
             /\ Dot(pre.contactVel, dir) < 0 - 7000 => Dot(velocityRef, dir) > 0

\* a ball that entered a wall at speed 2, bounced out at 1.295 and, still in contact in the
\* next frame, is turned back into the wall
C23_TurnedBackIntoBox ==
    \E i \in 1..Len(LevelObstacles(level)) :
       /\ ObType(i) = "box" /\ OnlyHit(i)
       /\ obstacleTime = 2 * ContactDt
       /\ pre.vel = Vec(1295, 0, 0)
       /\ BoxDistSq(pre.contact, i) > 0
       /\ BoxDistSq(ballPos, i) > BALL_RADIUS * BALL_RADIUS
       /\ Dot(pre.contactVel, FlatDir(pre.contact, meshes[i])) > 0
       /\ Dot(velocityRef, FlatDir(pre.contact, meshes[i])) < 0

---------------------------------------------------------------------------
(* Ball height and ramps *)

\* the footprint test of the ramp branch for obstacle i of the level being played
InFootprint(p, i) ==
    LET o == LevelObstacles(level)[i]
        w == IF o.data.x # 0 THEN o.data.x ELSE 4000
        depth == IF o.data.y # 0 THEN o.data.y ELSE 6000
    IN /\ Abs(p.x - meshes[i].pos.x) < w \div 2 + 600
       /\ Abs(p.z - meshes[i].pos.z) < depth \div 2 + 600

OffEveryRamp(p) ==
    \A i \in 1..Len(LevelObstacles(level)) : ObType(i) = "ramp" => ~InFootprint(p, i)

\* C24: at the end of a frame, with no sink started (latch clear, sink inactive), a ball
\* whose horizontal position is outside every ramp footprint is at height BALL_RADIUS.
C24_GroundLevelOffRamps ==
    (/\ phase = "game" /\ last = "frame"
     /\ ~holeTriggeredRef /\ ~sinkingRef.active
     /\ OffEveryRamp(ballPos))
       => ballPos.y = BALL_RADIUS

\* what the ramp branch does guarantee: inside a footprint the height is at least
\* BALL_RADIUS; outside, the height is whatever the last ramp left
C24_NeverBelowGround ==
    (/\ phase = "game" /\ last = "frame"
     /\ ~holeTriggeredRef /\ ~sinkingRef.active)
       => ballPos.y >= BALL_RADIUS

\* a ball that rolled off a ramp and is still at the height the ramp gave it
C24_AirborneOffRamp ==
    /\ phase = "game" /\ last = "frame"
    /\ ~holeTriggeredRef /\ ~sinkingRef.active
    /\ OffEveryRamp(ballPos)
    /\ ~OffEveryRamp(pre.pos)
    /\ "moved" \in ev
    /\ ballPos.y > BALL_RADIUS

---------------------------------------------------------------------------
(* Level change *)

\* C25: every step that changes the level leaves the sink inactive, the latch clear and
\* the velocity zero, so the first frame of the rebuilt scene starts from them, whether
\* the change came from the modal, from a new mount or from the route parameter.
C25_LevelChangeResets ==
    [][level' # level =>
          /\ ~sinkingRef'.active
          /\ ~holeTriggeredRef'
          /\ velocityRef' = ZeroV]_vars

\* what the rebuild does reset: ball transform, obstacles, obstacle clock, aiming flag
C25_RebuildResetsScene ==
    [][level' # level =>
          /\ ballPos' = SPAWN /\ ballScale' = 1000
          /\ meshes' = InitialMeshes(level') /\ obstacleTime' = 0
          /\ ~isAiming']_vars

\* a scene rebuilt for another level while a sink was running and the ball had a velocity
C25_RebuiltDuringSink ==
    /\ last = "route"
    /\ sinkingRef.active /\ holeTriggeredRef
    /\ velocityRef # ZeroV
    /\ ballPos = SPAWN

---------------------------------------------------------------------------
(* The sink reaches Done *)

\* a sink is running and the frames it still needs fit within the explored time
SinkRunning ==
    /\ sinkingRef.active
    /\ obstacleTime - sinkingRef.t + SINK_TOTAL + SinkDtLong <= MaxTime

\* the sink is over and the completion callback has been called
SinkDone == ~sinkingRef.active /\ holeTriggeredRef /\ holeDone /\ calls = 1

\* C26: with frames of positive dt arriving and no reset or level change, a triggered sink
\* reaches Done: it becomes inactive and onHoleComplete is called, in the first frame in
\* which the accumulated sink time is at least 1.2 s and in no earlier one.
C26_SinkReachesDone ==
    /\ SinkRunning ~> SinkDone
    /\ [](sinkingRef.active => sinkingRef.t < SINK_TOTAL)
    /\ [][(last' = "frame" /\ sinkingRef.active)
             => /\ sinkingRef'.t = sinkingRef.t + pre'.dt
                /\ ("done" \in ev') = (sinkingRef'.t >= SINK_TOTAL)
                /\ ("done" \in ev') = (~sinkingRef'.active /\ calls' = calls + 1)]_vars

\* a sink completed by a frame that brought the accumulated time to exactly 1.2 s, after
\* a repeated timestamp and a release during the sink
C26_DoneAtExactlyTotal ==
    /\ last = "frame" /\ "done" \in ev
    /\ SinkDone
    /\ sinkingRef.t = SINK_TOTAL
    /\ velocityRef # ZeroV

---------------------------------------------------------------------------
(* Ramp *)

\* the last frame ran the physics and no box or plank moved the ball before the ramps
\* were tested
RampSawIntegratedBall ==
    /\ last = "frame" /\ "sink" \notin ev
    /\ \A j \in pre.hit : ObType(j) \in {"ramp", "moving"}

\* proportion along the depth of ramp i at depth coordinate z, in thousandths, unclamped
RampLocalZ(i, z) ==
    Quot((z - (meshes[i].pos.z - LevelObstacles(level)[i].data.y \div 2)) * 1000,
         LevelObstacles(level)[i].data.y)

\* C27: the ramp branch acts exactly when |dx| < width/2 + 0.6 and |dz| < depth/2 + 0.6;
\* it then sets the ball height to BALL_RADIUS + maxHeight * clamp(localZ, 0, 1), which
\* lies between BALL_RADIUS and BALL_RADIUS + maxHeight, and multiplies the vertical
\* velocity by 0.2, leaving x, z and the horizontal velocity alone; outside the footprint
\* it changes nothing.
C27_RampHeightAndDamping ==
    \A i \in 1..Len(LevelObstacles(level)) :
       (ObType(i) = "ramp" /\ RampSawIntegratedBall) =>
          /\ (i \in pre.hit) = InFootprint(pre.contact, i)
          /\ i \in pre.hit =>
                \E t \in {Clamp(RampLocalZ(i, pre.contact.z), 0, 1000)} :
                   /\ ballPos.y = BALL_RADIUS + Quot(LevelObstacles(level)[i].data.z * t, 1000)
                   /\ ballPos.y >= BALL_RADIUS
                   /\ ballPos.y <= BALL_RADIUS + LevelObstacles(level)[i].data.z
                   /\ ballPos.x = pre.contact.x /\ ballPos.z = pre.contact.z
                   /\ pre.hit = {i} =>
                         velocityRef = [pre.contactVel EXCEPT !.y = Quot(pre.contactVel.y * 2, 10)]
          /\ pre.hit = {} => (ballPos = pre.contact /\ velocityRef = pre.contactVel)

\* balls inside the margins before the low end (localZ < 0) and past the high end
\* (localZ > 1) of a ramp: ground height and full height
C27_ClampedAtLowEnd ==
    \E i \in 1..Len(LevelObstacles(level)) :
       /\ ObType(i) = "ramp" /\ RampSawIntegratedBall
       /\ pre.hit = {i}
       /\ RampLocalZ(i, pre.contact.z) < 0
       /\ "moved" \in ev
       /\ ballPos.y = BALL_RADIUS

C27_ClampedAtHighEnd ==
    \E i \in 1..Len(LevelObstacles(level)) :
       /\ ObType(i) = "ramp" /\ RampSawIntegratedBall
       /\ i \in pre.hit
       /\ RampLocalZ(i, pre.contact.z) > 1000
       /\ ballPos.y = BALL_RADIUS + LevelObstacles(level)[i].data.z

\* a ball on the slope with a vertical velocity: lifted and damped
C27_LiftedAndDamped ==
    \E i \in 1..Len(LevelObstacles(level)) :
       /\ ObType(i) = "ramp" /\ RampSawIntegratedBall
       /\ pre.hit = {i}
       /\ pre.contactVel.y > 0
       /\ velocityRef.y < pre.contactVel.y
       /\ ballPos.y > BALL_RADIUS

---------------------------------------------------------------------------
(* Particle step *)

\* slot n is slot c after a particle step of dt
SlotStepped(c, n, dt) ==
    IF c.visible
    THEN /\ n.vel = Vec(c.vel.x, c.vel.y - Quot(GRAVITY * dt, 1000), c.vel.z)
         /\ n.pos = Vec(c.pos.x + Quot(n.vel.x * dt, 1000),
                        c.pos.y + Quot(n.vel.y * dt, 1000),
                        c.pos.z + Quot(n.vel.z * dt, 1000))
         /\ n.life = c.life - dt
         /\ n.visible = ~(n.life <= 0 \/ n.pos.y < CONFETTI_FLOOR)
    ELSE n = c

\* the first and last slot of a burst into the empty pool and of a burst that meets it
WatchedSlots == {1, BURST, BURST + 1, 2 * BURST}

\* C28: a particle step changes only the active particles: vertical velocity less
\* 9.8*dt, position advanced by the velocity times dt, lifetime less dt, inactive once
\* the lifetime is at most 0 or the height is below -1; inactive particles are left
\* as they are; and with frames of positive dt arriving, every active particle
\* becomes inactive: it holds a lifetime of at most 3.2 that every such frame lowers.
C28_ParticlesStepAndExpire ==
    /\ [][last' = "particles" =>
             \A i \in 1..POOL_SIZE : SlotStepped(confettiPool[i], confettiPool'[i], pre'.dt)]_vars
    /\ [](\A i \in Active(confettiPool) :
             confettiPool[i].life > 0 /\ confettiPool[i].life <= 1200 + 2000)
    /\ \A i \in WatchedSlots : confettiPool[i].visible ~> ~confettiPool[i].visible

\* a particle above the floor deactivated by its lifetime, beside an inactive slot
C28_ExpiredAboveFloor ==
    /\ last = "particles"
    /\ pre.dt > 0
    /\ \E i \in 1..POOL_SIZE :
          /\ ~confettiPool[i].visible
          /\ confettiPool[i].vel # ZeroV
          /\ confettiPool[i].life <= 0
          /\ confettiPool[i].life > 0 - pre.dt
          /\ confettiPool[i].pos.y >= CONFETTI_FLOOR
    /\ \E i \in 1..POOL_SIZE : confettiPool[i] = createConfettiPool(POOL_SIZE)[i]

====
